---- MODULE Spec2Model ----
(***************************************************************************)
(* A model of qmpbackup's backup orchestration engine                      *)
(* (libqmpbackup/qmpcommon.py, fs.py, vm.py).                              *)
(*                                                                         *)
(* Python strings are sequences of tokens (each token a TLA+ string that   *)
(* stands for an indivisible piece of text), so that f-strings,            *)
(* startswith, endswith, replace and basename are computed, not assumed.   *)
(* Python's None is the reserved string PyNone.                            *)
(***************************************************************************)
EXTENDS Naturals, Integers, Sequences, FiniteSets, TLC

----------------------------------------------------------------------------
(* Strings                                                                 *)

PyNone == <<"\\None">>

\* str(x) inside an f-string: None is rendered as the text "None".
Fmt(x) == IF x = PyNone THEN <<"None">> ELSE x

\* s.startswith(p)
StartsWith(s, p) == Len(s) >= Len(p) /\ SubSeq(s, 1, Len(p)) = p

\* s.endswith(p)
EndsWith(s, p) == Len(s) >= Len(p) /\ SubSeq(s, Len(s) - Len(p) + 1, Len(s)) = p

\* s.replace("#", "")
StripHash(s) == SelectSeq(s, LAMBDA t : t # "#")

\* os.path.basename(s): the text after the last "/"
Basename(s) ==
  LET slashes == {i \in 1..Len(s) : s[i] = "/"}
      last == IF slashes = {} THEN 0
              ELSE CHOOSE i \in slashes : \A j \in slashes : j <= i
  IN SubSeq(s, last + 1, Len(s))

\* the set of a list's elements
SeqToSet(q) == {q[i] : i \in 1..Len(q)}

----------------------------------------------------------------------------
(* vm.py: BlockDev and the has_bitmap rule of get_block_devices            *)

\* a has_bitmap that counts every bitmap, named or not, under a uuid too
HasBitmap_any(bitmaps, uuid) == Len(bitmaps) > 0

\* has_bitmap as get_block_devices computes it from the selected bitmap
\* list and the uuid (a bitmap record without a name raises KeyError and
\* is skipped).
HasBitmap(bitmaps, uuid) ==
  IF Len(bitmaps) > 0 /\ uuid # PyNone
  THEN \E i \in 1..Len(bitmaps) :
          /\ "name" \in DOMAIN bitmaps[i]
          /\ EndsWith(bitmaps[i].name, uuid)
  ELSE Len(bitmaps) > 0

\* The BlockDev record appended by get_block_devices.
BlockDev(device, format, filename, bitmaps, node, qdev, child, uuid) ==
  [device |-> device, format |-> format, filename |-> filename,
   has_bitmap |-> HasBitmap(bitmaps, uuid), bitmaps |-> bitmaps,
   node |-> node, node_safe |-> StripHash(node), qdev |-> qdev,
   child_device |-> child]

\* get_node: the node bitmaps live on
get_node(device) ==
  IF device.child_device # PyNone THEN device.child_device ELSE device.node

----------------------------------------------------------------------------
(* qmpcommon.py: the transaction builder                                   *)

Levels == {"full", "inc", "diff", "copy"}

\* Python's `level in ("copy")`: the parentheses make no tuple, so this is
\* a substring test of level in the text; for the four levels the command
\* line admits, none is a proper substring of another.
InText(level, text) == level \in Levels /\ level = text

transaction_action(action, data) == [type |-> action, data |-> data]

transaction_bitmap_clear(node, name) ==
  transaction_action("block-dirty-bitmap-clear",
                     ("node" :> node) @@ ("name" :> name))

transaction_bitmap_add(node, name) ==
  transaction_action("block-dirty-bitmap-add",
                     ("node" :> node) @@ ("name" :> name))

transaction_bitmap_add_persistent(node, name, persistent) ==
  transaction_action("block-dirty-bitmap-add",
                     ("node" :> node) @@ ("name" :> name)
                       @@ ("persistent" :> persistent))

\* sync, bitmap_prefix and persistent, set before the device loop
tx_sync(argv) == IF argv.level = "inc" THEN "incremental" ELSE "full"

tx_bitmap_prefix(argv) ==
  IF argv.level = "copy" THEN <<"qmpbackup", "-", argv.level>>
  ELSE <<"qmpbackup">>

\* a faulty variant: the bitmap of a copy backup is persistent as well
tx_persistent_copy(argv) == IF argv.no_persist THEN FALSE ELSE TRUE

tx_persistent(argv) ==
  IF argv.level = "copy" THEN FALSE
  ELSE IF argv.no_persist THEN FALSE ELSE TRUE

\* f"{bitmap_prefix}-{device.device}-{uuid}"
tx_bitmap(argv, device, uuid) ==
  tx_bitmap_prefix(argv) \o <<"-">> \o device.device \o <<"-">> \o Fmt(uuid)

\* f"qmpbackup-{device.node_safe}"
tx_targetdev(device) == <<"qmpbackup", "-">> \o device.node_safe

\* a faulty variant: the job id built from the node name as reported
tx_job_id_node(device) ==
  <<"qmpbackup", ".">> \o device.node \o <<".">> \o Basename(device.filename)

\* f"qmpbackup.{device.node_safe}.{os.path.basename(device.filename)}"
tx_job_id(device) ==
  <<"qmpbackup", ".">> \o device.node_safe \o <<".">> \o Basename(device.filename)

\* the blockdev-backup source: the snapshot-access node, or the device node
tx_snapshot_device(argv, device) ==
  IF argv.no_fleece = FALSE
  THEN <<"qmpbackup", "-">> \o device.node_safe \o <<"-", "snap">>
  ELSE device.node

\* the condition under which a new bitmap is added on the source node
\* (Python: A and B and C or D and E)
tx_add_cond(argv, device) ==
  \/ (~device.has_bitmap /\ device.format # "raw"
        /\ argv.level \in {"full", "copy"})
  \/ (device.has_bitmap /\ InText(argv.level, "copy"))

tx_clear_cond(argv, device) ==
  device.has_bitmap /\ InText(argv.level, "full") /\ device.format # "raw"

tx_compress(argv, device) ==
  IF device.format = "raw" /\ argv.compress THEN FALSE ELSE argv.compress

tx_full_cond(argv, device) ==
  \/ argv.level \in {"full", "copy"}
  \/ (argv.level = "inc" /\ device.format = "raw")

\* the actions one pass of the device loop appends
tx_device_actions(argv, device, uuid) ==
  LET node == get_node(device)
      targetdev == tx_targetdev(device)
      bitmap == tx_bitmap(argv, device, uuid)
      job_id == tx_job_id(device)
      snapshot_device == tx_snapshot_device(argv, device)
      add == IF tx_add_cond(argv, device)
             THEN <<transaction_bitmap_add_persistent(node, bitmap,
                                                      tx_persistent(argv))>>
             ELSE <<>>
      clear == IF tx_clear_cond(argv, device)
               THEN <<transaction_bitmap_clear(node, bitmap)>>
               ELSE <<>>
      backup_full ==
        transaction_action("blockdev-backup",
          ("device" :> snapshot_device) @@ ("target" :> targetdev)
            @@ ("sync" :> tx_sync(argv)) @@ ("job-id" :> job_id)
            @@ ("speed" :> argv.speed_limit)
            @@ ("compress" :> tx_compress(argv, device))
            @@ ("auto-dismiss" :> FALSE))
      merge ==
        IF argv.no_fleece = FALSE
        THEN << transaction_bitmap_add(snapshot_device, bitmap),
                transaction_action("block-dirty-bitmap-merge",
                  ("node" :> snapshot_device) @@ ("target" :> bitmap)
                    @@ ("bitmaps" :> << [name |-> bitmap, node |-> node] >>)) >>
        ELSE <<>>
      backup_bitmap ==
        transaction_action("blockdev-backup",
          ("bitmap" :> bitmap) @@ ("device" :> snapshot_device)
            @@ ("target" :> targetdev) @@ ("sync" :> tx_sync(argv))
            @@ ("job-id" :> job_id) @@ ("speed" :> argv.speed_limit)
            @@ ("compress" :> argv.compress) @@ ("auto-dismiss" :> FALSE))
  IN add \o clear \o
     (IF tx_full_cond(argv, device)
      THEN <<backup_full>>
      ELSE merge \o <<backup_bitmap, transaction_bitmap_clear(node, bitmap)>>)

RECURSIVE prepare_transaction(_, _, _)
prepare_transaction(argv, devices, uuid) ==
  IF devices = <<>> THEN <<>>
  ELSE tx_device_actions(argv, Head(devices), uuid)
         \o prepare_transaction(argv, Tail(devices), uuid)

----------------------------------------------------------------------------
(* qmpcommon.py: the monitor commands of the attach, redirect and detach   *)
(* operations, one per device                                              *)

QmpCommand(name, arguments) == [execute |-> name, arguments |-> arguments]

\* prepare_target_devices: blockdev-add of the backup target
prepare_target_devices_cmd(argv, device, target_files) ==
  LET target == target_files[device.node]
      targetdev == <<"qmpbackup", "-">> \o device.node_safe
      file == ("driver" :> "file") @@ ("filename" :> target)
                @@ ("aio" :> argv.blockdev_aio)
      nocache == ("cache" :> (("direct" :> FALSE) @@ ("no-flush" :> FALSE)))
      args == ("driver" :> device.format) @@ ("node-name" :> targetdev)
  IN QmpCommand("blockdev-add",
       IF argv.blockdev_disable_cache = TRUE
       THEN args @@ nocache @@ ("file" :> (file @@ nocache))
       ELSE args @@ ("file" :> file))

\* prepare_fleece_devices: blockdev-add of the fleecing image
prepare_fleece_devices_cmd(device, target_files) ==
  LET target == target_files[device.node]
      targetdev == <<"qmpbackup", "-">> \o device.node_safe \o <<"-", "fleece">>
  IN QmpCommand("blockdev-add",
       ("driver" :> device.format) @@ ("node-name" :> targetdev)
         @@ ("file" :> (("driver" :> "file") @@ ("filename" :> target))))

\* add_cbw_device: blockdev-add of the copy-before-write filter
add_cbw_device_cmd(argv, device, uuid) ==
  LET bitmap_prefix == IF argv.level = "copy"
                       THEN <<"qmpbackup", "-", argv.level>>
                       ELSE <<"qmpbackup">>
      node == IF device.child_device # PyNone THEN device.child_device
              ELSE device.node
      cbwopt ==
        ("driver" :> "copy-before-write")
          @@ ("node-name" :> <<"qmpbackup", "-">> \o device.node_safe \o <<"-", "cbw">>)
          @@ ("file" :> node)
          @@ ("target" :> <<"qmpbackup", "-">> \o device.node_safe \o <<"-", "fleece">>)
          @@ ("on-cbw-error" :> "break-snapshot")
          @@ ("cbw-timeout" :> 45)
      bitmap == bitmap_prefix \o <<"-">> \o device.device \o <<"-">> \o Fmt(uuid)
  IN QmpCommand("blockdev-add",
       IF device.has_bitmap /\ argv.level \in {"inc", "diff"}
       THEN cbwopt @@ ("bitmap" :> [node |-> node, name |-> bitmap])
       ELSE cbwopt)

\* add_snapshot_access_devices: blockdev-add of the snapshot-access node
add_snapshot_access_devices_cmd(device) ==
  QmpCommand("blockdev-add",
    ("driver" :> "snapshot-access")
      @@ ("file" :> <<"qmpbackup", "-">> \o device.node_safe \o <<"-", "cbw">>)
      @@ ("node-name" :> <<"qmpbackup", "-">> \o device.node_safe \o <<"-", "snap">>))

\* a faulty variant: disable writes the node the bitmaps live on
blockdev_replace_target_child(device, action) ==
  IF action = "disable" THEN get_node(device)
  ELSE <<"qmpbackup", "-">> \o device.node_safe \o <<"-", "cbw">>

\* blockdev_replace: the value written to the drive property
blockdev_replace_target(device, action) ==
  IF action = "disable" THEN device.node
  ELSE <<"qmpbackup", "-">> \o device.node_safe \o <<"-", "cbw">>

\* blockdev_replace: qom-set of the drive property
blockdev_replace_cmd(device, action) ==
  QmpCommand("qom-set",
    ("path" :> device.qdev) @@ ("property" :> "drive")
      @@ ("value" :> blockdev_replace_target(device, action)))

\* remove_snapshot_access_devices: the node deleted
remove_snapshot_access_devices_targetdev(device) ==
  <<"qmpbackup", "-">> \o device.node_safe \o <<"-", "snap">>

remove_snapshot_access_devices_cmd(device) ==
  QmpCommand("blockdev-del",
    ("node-name" :> remove_snapshot_access_devices_targetdev(device)))

\* remove_cbw_devices: the node deleted
remove_cbw_devices_targetdev(device) ==
  <<"qmpbackup", "-">> \o device.node_safe \o <<"-", "cbw">>

remove_cbw_devices_cmd(device) ==
  QmpCommand("blockdev-del", ("node-name" :> remove_cbw_devices_targetdev(device)))

\* a faulty variant: the fleecing node under the name {node}_fleece
remove_fleece_devices_targetdev_node(device) ==
  device.node \o <<"_", "fleece">>

\* remove_fleece_devices: the node deleted
remove_fleece_devices_targetdev(device) ==
  <<"qmpbackup", "-">> \o device.node_safe \o <<"-", "fleece">>

remove_fleece_devices_cmd(device) ==
  QmpCommand("blockdev-del",
    ("node-name" :> remove_fleece_devices_targetdev(device)))

\* remove_target_devices: the node deleted
remove_target_devices_targetdev(device) ==
  <<"qmpbackup", "-">> \o device.node_safe

remove_target_devices_cmd(device) ==
  QmpCommand("blockdev-del",
    ("node-name" :> remove_target_devices_targetdev(device)))

----------------------------------------------------------------------------
(* The hypervisor's side of blockdev-add, blockdev-del and qom-set.        *)
(* hv is [nodes, drive, bitmaps]; the answer is [ok, hv].                  *)

NodeNames(nodes) == {n.name : n \in nodes}

\* the nodes a new node refers to by name
HvNodeRefs(args) ==
  IF args["driver"] = "copy-before-write" THEN {args["file"], args["target"]}
  ELSE IF args["driver"] = "snapshot-access" THEN {args["file"]}
  ELSE {}

\* a node is in use while another node or a guest device refers to it
HvInUse(hv, name) ==
  \/ \E n \in hv.nodes : n.file = name \/ n.target = name
  \/ \E q \in DOMAIN hv.drive : hv.drive[q] = name

HvExecute(hv, cmd) ==
  LET args == cmd.arguments
      error == [ok |-> FALSE, hv |-> hv]
  IN IF cmd.execute = "blockdev-add"
     THEN IF /\ args["node-name"] \notin NodeNames(hv.nodes)
             /\ HvNodeRefs(args) \subseteq NodeNames(hv.nodes)
             /\ args["driver"] = "snapshot-access" =>
                  \E n \in hv.nodes : /\ n.name = args["file"]
                                      /\ n.driver = "copy-before-write"
             /\ "bitmap" \in DOMAIN args => args["bitmap"] \in hv.bitmaps
          THEN [ok |-> TRUE,
                hv |-> [hv EXCEPT !.nodes = @ \cup
                  { [name |-> args["node-name"], driver |-> args["driver"],
                     file |-> IF HvNodeRefs(args) = {} THEN PyNone
                              ELSE args["file"],
                     target |-> IF "target" \in DOMAIN args THEN args["target"]
                                ELSE PyNone] }]]
          ELSE error
     ELSE IF cmd.execute = "blockdev-del"
     THEN IF /\ args["node-name"] \in NodeNames(hv.nodes)
             /\ ~HvInUse(hv, args["node-name"])
          THEN [ok |-> TRUE,
                hv |-> [hv EXCEPT !.nodes =
                          {n \in @ : n.name # args["node-name"]}]]
          ELSE error
     ELSE IF cmd.execute = "qom-set"
     THEN IF /\ args["path"] \in DOMAIN hv.drive
             /\ args["value"] \in NodeNames(hv.nodes)
          THEN [ok |-> TRUE,
                hv |-> [hv EXCEPT !.drive[args["path"]] = args["value"]]]
          ELSE error
     ELSE error

\* The loop `for device in devices: await self._execute(...)`: the commands
\* are sent in order; the first one that fails (the hypervisor answers
\* with an error, or the command at position f fails for a reason of its
\* own) raises RuntimeError out of the operation.  The answer tells
\* whether the operation returned (ok), whether position f was reached
\* (faulted), and the hypervisor's state after it.
RECURSIVE execute_each(_, _, _, _)
execute_each(hv, cmds, i, f) ==
  IF i > Len(cmds) THEN [ok |-> TRUE, faulted |-> FALSE, hv |-> hv]
  ELSE IF i = f THEN [ok |-> FALSE, faulted |-> TRUE, hv |-> hv]
  ELSE LET r == HvExecute(hv, cmds[i])
       IN IF r.ok THEN execute_each(r.hv, cmds, i + 1, f)
          ELSE [ok |-> FALSE, faulted |-> FALSE, hv |-> hv]

----------------------------------------------------------------------------
(* fs.py: the guest agent.  A reply of the agent to a command is the       *)
(* returned value, "error" (an error reply: command raises RuntimeError)   *)
(* or "closed" (time-out or closed connection: an exception that is no     *)
(* RuntimeError).                                                          *)

\* get_state: the reply, None after a RuntimeError, or "raise"
get_state(statusReply) ==
  IF statusReply = "error" THEN "None"
  ELSE IF statusReply = "closed" THEN "raise"
  ELSE statusReply

\* thaw: [result, issued]: what thaw returns ("True", "False", or "raise"
\* when an exception leaves it) and whether guest-fsfreeze-thaw was sent
thaw(statusReply, thawReply) ==
  LET fsstate == get_state(statusReply)
  IN IF fsstate = "raise" THEN [result |-> "raise", issued |-> FALSE]
     ELSE IF fsstate = "thawed" THEN [result |-> "True", issued |-> FALSE]
     ELSE IF thawReply = "error" THEN [result |-> "False", issued |-> TRUE]
     ELSE IF thawReply = "closed" THEN [result |-> "raise", issued |-> TRUE]
     ELSE [result |-> "True", issued |-> TRUE]

----------------------------------------------------------------------------
(* qmpcommon.py: the job filter and the per-job decision of backup()       *)

\* the jobs backup() and cancel_jobs look at
Qualifies(job) ==
  job.type = "backup" /\ StartsWith(job.device, <<"qmpbackup">>)

\* backup(): what the polling loop does with one job of the list:
\* "skip" | "raise" | "dismiss" | "progress"
backup_job_decision(job) ==
  IF ~(job.type = "backup") THEN "skip"
  ELSE IF ~StartsWith(job.device, <<"qmpbackup">>) THEN "skip"
  ELSE IF job.status \in {"aborting", "undefined"} THEN "raise"
  ELSE IF job.status = "concluded" /\ job.offset # job.len THEN "raise"
  ELSE IF job.status = "concluded" /\ job.offset = job.len THEN "dismiss"
  ELSE "progress"

\* the job ids the transaction starts
JobIdsOf(as) ==
  {as[k].data["job-id"] : k \in {j \in 1..Len(as) : as[j].type = "blockdev-backup"}}

\* the hypervisor's jobs for the blockdev-backup actions of a transaction
RECURSIVE HvStartJobs(_, _)
HvStartJobs(as, len) ==
  IF as = <<>> THEN <<>>
  ELSE (IF Head(as).type = "blockdev-backup"
        THEN << [device |-> Head(as).data["job-id"], type |-> "backup",
                 status |-> "running", offset |-> 0, len |-> len] >>
        ELSE <<>>) \o HvStartJobs(Tail(as), len)

\* the list without its k-th element
RemoveAt(q, k) == SubSeq(q, 1, k - 1) \o SubSeq(q, k + 1, Len(q))

\* the positions of the job with a given id
JobIndex(q, id) == {k \in 1..Len(q) : q[k].device = id}

----------------------------------------------------------------------------
(* Inputs: the disks of the virtual machine and the command line           *)

MaxDevs == 2

Uuids == {PyNone, <<"U1">>}

\* Disk i of the virtual machine: odd disks carry an auto-generated node
\* name (#block...) and no child node, even disks a given node name and a
\* child node.
DiskDevice(i) == <<"hd", ToString(i)>>
DiskNode(i) ==
  IF i % 2 = 1 THEN <<"#", "block", ToString(i)>> ELSE <<"disk", ToString(i)>>
DiskChild(i) == IF i % 2 = 1 THEN PyNone ELSE <<"child", ToString(i)>>
DiskFilename(i) == <<"/", "vm", "/", "img", ToString(i)>>
DiskQdev(i) == <<"/", "machine", "/", "virtio", ToString(i)>>

\* The bitmap lists a disk may carry when a run starts: none, the chain's
\* bitmap, a copy bitmap left by an aborted copy run, another chain's.
DiskBitmapLists(i) ==
  LET main(u) == [name |-> <<"qmpbackup", "-">> \o DiskDevice(i) \o <<"-">> \o u]
      copy(u) == [name |-> <<"qmpbackup", "-", "copy", "-">> \o DiskDevice(i)
                              \o <<"-">> \o u]
  IN { <<>>, <<main(<<"U1">>)>>, <<copy(<<"U1">>)>>, <<main(<<"U2">>)>> }

DiskVariants(i, u) ==
  { BlockDev(DiskDevice(i), f, DiskFilename(i), b, DiskNode(i), DiskQdev(i),
             DiskChild(i), u) :
      f \in {"raw", "qcow2"}, b \in DiskBitmapLists(i) }

\* The device lists get_block_devices can return: a non-empty selection of
\* the disks, in the hypervisor's order.
RECURSIVE DeviceListsFrom(_, _)
DeviceListsFrom(i, u) ==
  IF i > MaxDevs THEN { <<>> }
  ELSE LET rest == DeviceListsFrom(i + 1, u)
       IN rest \cup { <<d>> \o r : d \in DiskVariants(i, u), r \in rest }

DeviceLists(u) == DeviceListsFrom(1, u) \ { <<>> }

ArgvSet ==
  [level : Levels, no_persist : BOOLEAN, no_fleece : BOOLEAN,
   compress : BOOLEAN, speed_limit : {0},
   blockdev_aio : {"threads"}, blockdev_disable_cache : {FALSE}]

\* The target and fleecing files image.create made, keyed by device.node.
BackupTargets(devs) ==
  [n \in {devs[i].node : i \in 1..Len(devs)} |->
     <<"/", "backup", "/">> \o n \o <<".partial">>]

FleeceTargets(devs) ==
  [n \in {devs[i].node : i \in 1..Len(devs)} |->
     <<"/", "vm", "/">> \o n \o <<".fleece">>]

\* The block nodes of the virtual machine before any run: per disk its
\* node and, for a disk with a child, the child node below it.
VmNodes ==
  UNION { { [name |-> DiskNode(i), driver |-> "qcow2",
             file |-> DiskChild(i), target |-> PyNone] }
          \cup (IF DiskChild(i) = PyNone THEN {}
                ELSE { [name |-> DiskChild(i), driver |-> "file",
                        file |-> PyNone, target |-> PyNone] })
          : i \in 1..MaxDevs }

\* A target node an earlier run that was killed may have left attached.
StaleNodes ==
  { [name |-> <<"qmpbackup", "-">> \o StripHash(DiskNode(1)),
     driver |-> "qcow2", file |-> PyNone, target |-> PyNone] }

\* each guest device's drive is the disk's node
VmDrive == [q \in {DiskQdev(i) : i \in 1..MaxDevs} |->
              DiskNode(CHOOSE i \in 1..MaxDevs : DiskQdev(i) = q)]

\* The hypervisor's bitmaps as the device list reports them.
BitmapsOf(devs) ==
  UNION { { [node |-> get_node(devs[i]), name |-> devs[i].bitmaps[j].name] :
              j \in 1..Len(devs[i].bitmaps) } : i \in 1..Len(devs) }

----------------------------------------------------------------------------
(* The hypervisor's side of a transaction: the bitmap actions.  All        *)
(* actions take effect, or none does.                                      *)

\* One action applied to a set of bitmaps: r.ok tells whether every action
\* so far was accepted, r.bm is the set of bitmaps after them.
HvBitmapAction(r, a) ==
  LET bm == r.bm
      fail == [ok |-> FALSE, bm |-> bm]
  IN IF ~r.ok THEN r
     ELSE IF a.type = "block-dirty-bitmap-add"
     THEN LET b == [node |-> a.data["node"], name |-> a.data["name"]]
          IN IF b \in bm THEN fail ELSE [ok |-> TRUE, bm |-> bm \cup {b}]
     ELSE IF a.type = "block-dirty-bitmap-clear"
     THEN LET b == [node |-> a.data["node"], name |-> a.data["name"]]
          IN IF b \in bm THEN r ELSE fail
     ELSE IF a.type = "block-dirty-bitmap-merge"
     THEN IF /\ [node |-> a.data["node"], name |-> a.data["target"]] \in bm
             /\ \A k \in 1..Len(a.data["bitmaps"]) : a.data["bitmaps"][k] \in bm
          THEN r ELSE fail
     ELSE r

RECURSIVE HvBitmapActions(_, _)
HvBitmapActions(r, as) ==
  IF as = <<>> THEN r
  ELSE HvBitmapActions(HvBitmapAction(r, Head(as)), Tail(as))

HvTransaction(bm, as) == HvBitmapActions([ok |-> TRUE, bm |-> bm], as)

----------------------------------------------------------------------------
(* State                                                                   *)

VARIABLES
  argv,        \* the parsed command line (level, no_fleece, ...)
  devices,     \* the list of BlockDev the run works on
  uuid,        \* the chain uuid (PyNone when none is given)
  actions,     \* what prepare_transaction returned (<<>> before)
  txState,     \* "none" | "prepared" | "applied" | "rejected"
  hvBitmaps,   \* hypervisor: the dirty bitmaps, as [node, name] records
  hvNodes,     \* hypervisor: the attached block nodes [name, file, target]
  drive,       \* hypervisor: the drive property of each qdev
  opResult,    \* per operation of the run: "none" | "ok" | "raised"
  faults,      \* monitor commands that failed for a reason of their own
  preNodes,    \* the nodes attached when the run began
  hvJobs,      \* hypervisor: the block jobs, as query-block-jobs lists them
  qga,         \* backup(): the guest agent argument (FALSE: none)
  bpc,         \* backup(): where it is
  finished,    \* backup(): the counter of finished jobs
  jobs,        \* backup(): the jobs of the last poll not yet looked at
  stop_backup, \* the stop flag
  raised,      \* backup(): the device its fatal error names (or the cause)
  events,      \* history: transaction and thaw in order; cancel_jobs: its last command
  dismissedOk, \* history: jobs dismissed after concluded with offset = len
  pollBad,     \* history: the last poll listed a failed qualifying job
  iterStop,    \* history: the stop flag was set when the iteration began
  cpc,         \* cancel_jobs(): where it is
  retry        \* cancel_jobs(): the round of its loop

inputVars == <<argv, devices, uuid>>
txVars == <<actions, txState, hvBitmaps>>
nodeVars == <<hvNodes, drive, opResult, faults, preNodes>>
jobVars == <<hvJobs, qga, bpc, finished, jobs, stop_backup, raised, events,
             dismissedOk, pollBad, iterStop>>
cancelVars == <<cpc, retry>>
coreVars == <<inputVars, txVars, nodeVars, jobVars, cancelVars>>

VARIABLES
  connection_retry, \* QmpCommon: the number of connection attempts allowed
  kpc,              \* _execute(): where it is
  conn_retry,       \* _connect(): its retry counter
  conn_iter,        \* _connect(): the passes of its loop so far
  connected,        \* the monitor client holds a connection
  commandsLeft,     \* the monitor commands the run still has to send
  attempts,         \* history: connection attempts made for this command
  sentUnconnected   \* history: a command was sent without a connection

connVars == <<connection_retry, kpc, conn_retry, conn_iter, connected,
              commandsLeft, attempts, sentUnconnected>>

VARIABLES
  apc,     \* guest agent: the next call (connect_qaagent, quiesce, thaw)
  aqga,    \* guest agent: what connect_qaagent returned (FALSE: no agent)
  aborted, \* guest agent: the call an exception has left (or "none")
  alog     \* history: the calls, what the agent replied, what they returned

agentVars == <<apc, aqga, aborted, alog>>

VARIABLES
  files,          \* the host files that exist (paths)
  cidx,           \* image.create: the devices its loop has done
  cres,           \* image.create: "running", "returned" or "raised"
  backup_targets, \* image.create: node -> target file
  fleece_targets, \* image.create: node -> fleecing file
  clobbered,      \* history: files that existed and were created anew
  opt,            \* image.create: its list of creation options
  create_cmds,    \* history: the qemu-img commands create has run
  configs,        \* the .config files of the backup directory: path -> text
  imginfo         \* what qemu-img info reports of an image: filename -> text

createVars == <<files, cidx, cres, backup_targets, fleece_targets, clobbered,
                opt, create_cmds, configs, imginfo>>

VARIABLES
  pop,     \* post-processing: the subcommand that runs
  pargs,   \* post-processing: dry_run, skip_check, until
  pimages, \* post-processing: the directory's files, sorted by mtime
  pfiles,  \* the files of the directory now
  ppc,     \* post-processing: "head", "loop", "done"
  ppos,    \* post-processing: the passes of its loop so far
  pres,    \* post-processing: what it returned ("none" while it runs)
  plog     \* history: the subprocess and file commands it has run

postVars == <<pop, pargs, pimages, pfiles, ppc, ppos, pres, plog>>

VARIABLES
  blockinfo, \* get_block_devices: the reply to query-block it is given
  named_block_info, \* the reply to query-named-block-nodes it is given
  excluded_disks,   \* the names the caller excludes (<<>>: none given)
  included_disks,   \* the names the caller includes (<<>>: none given)
  rpc,       \* remove_bitmaps: "idle", "dev", "bitmap", "done", "raised"
  rdev,      \* remove_bitmaps: the position of `for dev in blockdev`
  rbit,      \* remove_bitmaps: the position of `for bitmap in dev.bitmaps`
  removed,   \* remove_bitmaps: the commands it has sent
  dpc        \* get_block_devices: "idle", "call", and once it returned
             \* "none" (None) or "list" (a list of BlockDev)

devVars == <<blockinfo, named_block_info, excluded_disks, included_disks, dpc,
             rpc, rdev, rbit, removed>>
extVars == <<connVars, agentVars, createVars, postVars, devVars>>
vars == <<coreVars, extVars>>

\* the parts of the state an operation that is not running leaves as
\* they are at construction
IdleTx == actions = <<>> /\ txState = "none"
IdleNodes ==
  /\ hvNodes = {} /\ preNodes = {}
  /\ drive = <<>>
  /\ opResult = <<>>
  /\ faults = 0
IdleJobs ==
  /\ hvJobs = <<>> /\ qga = FALSE
  /\ bpc = "idle" /\ finished = 0 /\ jobs = <<>>
  /\ stop_backup = FALSE /\ raised = <<>>
  /\ events = <<>> /\ dismissedOk = {} /\ pollBad = FALSE /\ iterStop = FALSE
IdleCancel == cpc = "idle" /\ retry = 0
IdleConn ==
  /\ connection_retry = 0 /\ kpc = "idle" /\ conn_retry = 0 /\ conn_iter = 0
  /\ connected = FALSE /\ commandsLeft = 0 /\ attempts = 0
  /\ sentUnconnected = FALSE
IdleAgent == apc = "idle" /\ aqga = FALSE /\ aborted = "none" /\ alog = <<>>
IdleCreate ==
  /\ files = {} /\ cidx = 0 /\ cres = "idle" /\ backup_targets = {}
  /\ fleece_targets = {} /\ clobbered = {}
  /\ opt = <<>> /\ create_cmds = <<>> /\ configs = <<>> /\ imginfo = <<>>
IdlePost ==
  /\ pop = "none" /\ pargs = <<>> /\ pimages = <<>> /\ pfiles = {}
  /\ ppc = "idle" /\ ppos = 0 /\ pres = "none" /\ plog = <<>>
IdleDev ==
  /\ blockinfo = <<>> /\ named_block_info = <<>> /\ excluded_disks = <<>>
  /\ included_disks = <<>> /\ dpc = "idle"
  /\ rpc = "idle" /\ rdev = 0 /\ rbit = 0 /\ removed = <<>>
IdleExt == IdleConn /\ IdleAgent /\ IdleCreate /\ IdlePost /\ IdleDev
IdleCore ==
  /\ argv \in {a \in ArgvSet : a.level = "full" /\ ~a.no_persist
                                /\ ~a.no_fleece /\ ~a.compress}
  /\ devices = <<>>
  /\ uuid = PyNone
  /\ IdleTx
  /\ hvBitmaps = {}
  /\ IdleNodes
  /\ IdleJobs
  /\ IdleCancel

----------------------------------------------------------------------------
(* Specification SpecTx: the transaction builder on every input            *)

TxInit ==
  /\ argv \in ArgvSet
  /\ uuid \in Uuids
  /\ devices \in DeviceLists(uuid)
  /\ IdleTx
  /\ hvBitmaps = BitmapsOf(devices)
  /\ IdleNodes
  /\ IdleJobs
  /\ IdleCancel
  /\ IdleExt

\* actions = self.prepare_transaction(argv, devices, uuid)
PrepareTransaction ==
  /\ txState = "none"
  /\ actions' = prepare_transaction(argv, devices, uuid)
  /\ txState' = "prepared"
  /\ UNCHANGED <<inputVars, extVars, hvBitmaps, nodeVars, jobVars, cancelVars>>

\* the hypervisor takes the transaction's bitmap actions
TxApplied ==
  /\ txState = "prepared"
  /\ HvTransaction(hvBitmaps, actions).ok
  /\ hvBitmaps' = HvTransaction(hvBitmaps, actions).bm
  /\ txState' = "applied"
  /\ UNCHANGED <<inputVars, extVars, actions, nodeVars, jobVars, cancelVars>>

\* the hypervisor rejects the transaction: nothing changes
TxRejected ==
  /\ txState = "prepared"
  /\ ~HvTransaction(hvBitmaps, actions).ok
  /\ txState' = "rejected"
  /\ UNCHANGED <<inputVars, extVars, actions, hvBitmaps, nodeVars, jobVars, cancelVars>>

TxNext == PrepareTransaction \/ TxApplied \/ TxRejected

SpecTx == TxInit /\ [][TxNext]_vars

----------------------------------------------------------------------------
(* Specification SpecNodes: the attach, redirect and detach operations of  *)
(* QmpCommon, each called at most once in a run, in any order.             *)

MaxFaults == 1

AttachOps ==
  {"prepare_target_devices", "prepare_fleece_devices", "add_cbw_device",
   "add_snapshot_access_devices"}
RemoveOps ==
  {"remove_snapshot_access_devices", "remove_cbw_devices",
   "remove_fleece_devices", "remove_target_devices"}
ReplaceOps == {"blockdev_replace_activate", "blockdev_replace_disable"}
NodeOps == AttachOps \cup RemoveOps \cup ReplaceOps

NodesArgvSet ==
  {a \in ArgvSet : /\ a.level \in {"full", "inc"}
                   /\ ~a.no_persist /\ ~a.no_fleece /\ ~a.compress}

\* qcow2 disks that carry the chain's bitmap, and no other
NodesDeviceLists ==
  {ds \in DeviceLists(<<"U1">>) :
     \A i \in 1..Len(ds) :
       /\ ds[i].format = "qcow2"
       /\ ds[i].bitmaps =
            << [name |-> <<"qmpbackup", "-">> \o ds[i].device \o <<"-", "U1">>] >>}

NodesInit ==
  /\ argv \in NodesArgvSet
  /\ uuid = <<"U1">>
  /\ devices \in NodesDeviceLists
  /\ IdleTx
  /\ hvBitmaps = BitmapsOf(devices)
  /\ \E stale \in SUBSET StaleNodes :
       /\ hvNodes = VmNodes \cup stale
       /\ preNodes = VmNodes \cup stale
  /\ drive = VmDrive
  /\ opResult = [op \in NodeOps |-> "none"]
  /\ faults = 0
  /\ IdleJobs
  /\ IdleCancel
  /\ IdleExt

\* One operation: its commands are executed in order until one fails.
RunOp(op, cmds) ==
  /\ opResult[op] = "none"
  /\ \E f \in 0..(IF faults < MaxFaults THEN Len(cmds) ELSE 0) :
       LET r == execute_each([nodes |-> hvNodes, drive |-> drive,
                              bitmaps |-> hvBitmaps], cmds, 1, f)
       IN /\ hvNodes' = r.hv.nodes
          /\ drive' = r.hv.drive
          /\ opResult' = [opResult EXCEPT ![op] = IF r.ok THEN "ok" ELSE "raised"]
          /\ faults' = faults + (IF r.faulted THEN 1 ELSE 0)
  /\ UNCHANGED <<inputVars, extVars, txVars, preNodes, jobVars, cancelVars>>

prepare_target_devices ==
  RunOp("prepare_target_devices",
        [i \in 1..Len(devices) |->
           prepare_target_devices_cmd(argv, devices[i], BackupTargets(devices))])

prepare_fleece_devices ==
  RunOp("prepare_fleece_devices",
        [i \in 1..Len(devices) |->
           prepare_fleece_devices_cmd(devices[i], FleeceTargets(devices))])

add_cbw_device ==
  RunOp("add_cbw_device",
        [i \in 1..Len(devices) |-> add_cbw_device_cmd(argv, devices[i], uuid)])

add_snapshot_access_devices ==
  RunOp("add_snapshot_access_devices",
        [i \in 1..Len(devices) |-> add_snapshot_access_devices_cmd(devices[i])])

blockdev_replace_activate ==
  RunOp("blockdev_replace_activate",
        [i \in 1..Len(devices) |-> blockdev_replace_cmd(devices[i], "activate")])

blockdev_replace_disable ==
  RunOp("blockdev_replace_disable",
        [i \in 1..Len(devices) |-> blockdev_replace_cmd(devices[i], "disable")])

remove_snapshot_access_devices ==
  RunOp("remove_snapshot_access_devices",
        [i \in 1..Len(devices) |-> remove_snapshot_access_devices_cmd(devices[i])])

remove_cbw_devices ==
  RunOp("remove_cbw_devices",
        [i \in 1..Len(devices) |-> remove_cbw_devices_cmd(devices[i])])

remove_fleece_devices ==
  RunOp("remove_fleece_devices",
        [i \in 1..Len(devices) |-> remove_fleece_devices_cmd(devices[i])])

remove_target_devices ==
  RunOp("remove_target_devices",
        [i \in 1..Len(devices) |-> remove_target_devices_cmd(devices[i])])

NodesNext ==
  \/ prepare_target_devices
  \/ prepare_fleece_devices
  \/ add_cbw_device
  \/ add_snapshot_access_devices
  \/ blockdev_replace_activate
  \/ blockdev_replace_disable
  \/ remove_snapshot_access_devices
  \/ remove_cbw_devices
  \/ remove_fleece_devices
  \/ remove_target_devices

SpecNodes == NodesInit /\ [][NodesNext]_vars

----------------------------------------------------------------------------
(* Specification SpecBackup: backup() from its call to its return or its   *)
(* fatal error, with the hypervisor's jobs running beside it and a         *)
(* termination signal that may arrive at any time.                         *)

JobLen == 1

BackupArgvSet ==
  {a \in ArgvSet : /\ a.level = "full"
                   /\ ~a.no_persist /\ ~a.no_fleece /\ ~a.compress}

\* one or two qcow2 disks that carry the chain's bitmap
BackupDeviceLists == {ds \in NodesDeviceLists : Len(ds) <= 2}

\* Block jobs the hypervisor may hold when backup() is called: a backup
\* job of an earlier run on a disk this run leaves out (its id carries
\* the qmpbackup prefix), and jobs that do not qualify.
ForeignJobs ==
  { [device |-> <<"qmpbackup", ".", "old", ".", "img">>, type |-> "backup",
     status |-> st, offset |-> JobLen, len |-> JobLen] :
       st \in {"running", "concluded"} }
  \cup { [device |-> <<"mirror", "0">>, type |-> "mirror",
          status |-> "running", offset |-> 0, len |-> JobLen],
         [device |-> <<"drive", "-", "backup">>, type |-> "backup",
          status |-> "concluded", offset |-> 0, len |-> JobLen] }

BackupInit ==
  /\ argv \in BackupArgvSet
  /\ uuid = <<"U1">>
  /\ devices \in BackupDeviceLists
  /\ IdleTx
  /\ hvBitmaps = BitmapsOf(devices)
  /\ IdleNodes
  /\ hvJobs \in { <<>> } \cup { <<j>> : j \in ForeignJobs }
  /\ qga \in BOOLEAN
  /\ bpc = "start"
  /\ finished = 0
  /\ jobs = <<>>
  /\ stop_backup = FALSE
  /\ raised = <<>>
  /\ events = <<>>
  /\ dismissedOk = {}
  /\ pollBad = FALSE
  /\ iterStop = FALSE
  /\ IdleCancel
  /\ IdleExt

\* a faulty variant: with a guest agent the thaw comes first
backup_next_pc_thaw_early(pc, q) ==
  IF pc = "start" THEN (IF q # FALSE THEN "thaw" ELSE "transaction")
  ELSE "check"

\* backup(): the order of its steps before the polling loop: the
\* transaction, then (with a guest agent) the thaw, then the loop
backup_next_pc(pc, q) ==
  IF pc = "start" THEN "transaction"
  ELSE IF pc = "transaction" THEN (IF q # FALSE THEN "thaw" ELSE "check")
  ELSE "check"

\* finished = 0; actions = self.prepare_transaction(...); the transaction
\* command is sent, and the hypervisor takes it as a whole or rejects it.
\* New jobs are listed before or after the jobs already there.
backup_start ==
  /\ bpc = "start"
  /\ finished' = 0
  /\ actions' = prepare_transaction(argv, devices, uuid)
  /\ events' = Append(events, "transaction_sent")
  /\ \/ /\ HvTransaction(hvBitmaps, actions').ok
        /\ JobIdsOf(actions') \cap {hvJobs[k].device : k \in 1..Len(hvJobs)} = {}
        /\ hvBitmaps' = HvTransaction(hvBitmaps, actions').bm
        /\ \/ hvJobs' = hvJobs \o HvStartJobs(actions', JobLen)
           \/ hvJobs' = HvStartJobs(actions', JobLen) \o hvJobs
        /\ txState' = "applied"
     \/ /\ txState' = "rejected"
        /\ UNCHANGED <<hvBitmaps, hvJobs>>
  /\ bpc' = backup_next_pc("start", qga)
  /\ UNCHANGED <<inputVars, extVars, nodeVars, cancelVars, qga, jobs, stop_backup, raised,
                 dismissedOk, pollBad, iterStop>>

\* await self._execute("transaction", ...) returns, or raises
backup_transaction_returns ==
  /\ bpc = "transaction"
  /\ IF txState = "applied"
     THEN /\ events' = Append(events, "transaction_returned")
          /\ bpc' = backup_next_pc("transaction", qga)
          /\ raised' = raised
     ELSE /\ bpc' = "raised"
          /\ raised' = <<"transaction">>
          /\ events' = events
  /\ UNCHANGED <<inputVars, extVars, txVars, nodeVars, cancelVars, hvJobs, qga, finished, jobs,
                 stop_backup, dismissedOk, pollBad, iterStop>>

\* if qga is not False: fs.thaw(qga)
backup_thaw ==
  /\ bpc = "thaw"
  /\ \E statusReply \in {"frozen", "thawed", "error", "closed"},
        thawReply \in {"ok", "error", "closed"} :
       LET r == thaw(statusReply, thawReply)
       IN /\ events' = IF r.issued THEN Append(events, "thaw") ELSE events
          /\ bpc' = IF r.result = "raise" THEN "raised"
                    ELSE backup_next_pc("thaw", qga)
          /\ raised' = IF r.result = "raise" THEN <<"agent">> ELSE raised
  /\ UNCHANGED <<inputVars, extVars, txVars, nodeVars, cancelVars, hvJobs, qga, finished, jobs,
                 stop_backup, dismissedOk, pollBad, iterStop>>

\* a faulty variant: the loop does not look at the stop flag
backup_check_ignores_flag ==
  /\ bpc = "check"
  /\ iterStop' = stop_backup
  /\ bpc' = "query"
  /\ UNCHANGED <<inputVars, extVars, txVars, nodeVars, cancelVars, hvJobs, qga, finished, jobs,
                 stop_backup, raised, events, dismissedOk, pollBad>>

\* while True: if self.stop_backup is True: raise RuntimeError(...)
backup_check ==
  /\ bpc = "check"
  /\ iterStop' = stop_backup
  /\ IF stop_backup = TRUE
     THEN bpc' = "raised" /\ raised' = <<"signal">>
     ELSE bpc' = "query" /\ raised' = raised
  /\ UNCHANGED <<inputVars, extVars, txVars, nodeVars, cancelVars, hvJobs, qga, finished, jobs,
                 stop_backup, events, dismissedOk, pollBad>>

\* jobs = await self._execute("query-block-jobs"): the list, or an error
backup_query ==
  /\ bpc = "query"
  /\ \/ /\ jobs' = hvJobs
        /\ pollBad' = \E k \in 1..Len(hvJobs) :
                        Qualifies(hvJobs[k])
                          /\ backup_job_decision(hvJobs[k]) = "raise"
        /\ events' = IF "poll" \in SeqToSet(events) THEN events
                     ELSE Append(events, "poll")
        /\ bpc' = "jobs"
        /\ raised' = raised
     \/ /\ bpc' = "raised"
        /\ raised' = <<"query-block-jobs">>
        /\ UNCHANGED <<jobs, pollBad, events>>
  /\ UNCHANGED <<inputVars, extVars, txVars, nodeVars, cancelVars, hvJobs, qga, finished,
                 stop_backup, dismissedOk, iterStop>>

\* the body of `for job in jobs` for the next job of the list
backup_job ==
  /\ bpc = "jobs"
  /\ jobs # <<>>
  /\ LET job == Head(jobs)
         decision == backup_job_decision(job)
     IN \/ /\ decision \in {"skip", "progress"}
           /\ jobs' = Tail(jobs)
           /\ UNCHANGED <<hvJobs, bpc, finished, raised, dismissedOk>>
        \/ /\ decision = "raise"
           /\ bpc' = "raised"
           /\ raised' = job.device
           /\ UNCHANGED <<hvJobs, jobs, finished, dismissedOk>>
        \/ /\ decision = "dismiss"
           \* block-job-dismiss: the hypervisor drops the concluded job
           /\ \E k \in JobIndex(hvJobs, job.device) :
                /\ hvJobs[k].status = "concluded"
                /\ hvJobs' = RemoveAt(hvJobs, k)
           /\ finished' = finished + 1
           /\ dismissedOk' = dismissedOk \cup {job.device}
           /\ IF Len(devices) = finished'
              THEN bpc' = "returned" /\ jobs' = jobs
              ELSE bpc' = bpc /\ jobs' = Tail(jobs)
           /\ raised' = raised
        \/ /\ decision = "dismiss"
           \* block-job-dismiss fails: _execute raises
           /\ bpc' = "raised"
           /\ raised' = <<"block-job-dismiss">>
           /\ UNCHANGED <<hvJobs, jobs, finished, dismissedOk>>
  /\ UNCHANGED <<inputVars, extVars, txVars, nodeVars, cancelVars, qga, stop_backup, events,
                 pollBad, iterStop>>

\* sleep(argv.refresh_rate), then the next iteration
backup_sleep ==
  /\ bpc = "jobs"
  /\ jobs = <<>>
  /\ bpc' = "check"
  /\ UNCHANGED <<inputVars, extVars, txVars, nodeVars, cancelVars, hvJobs, qga, finished, jobs,
                 stop_backup, raised, events, dismissedOk, pollBad, iterStop>>

\* a termination signal arrives: the handler sets the stop flag
signal_received ==
  /\ bpc \in {"transaction", "thaw", "check", "query", "jobs"}
  /\ stop_backup = FALSE
  /\ stop_backup' = TRUE
  /\ UNCHANGED <<inputVars, extVars, txVars, nodeVars, cancelVars, hvJobs, qga, bpc, finished,
                 jobs, raised, events, dismissedOk, pollBad, iterStop>>

\* the hypervisor: a running job copies a block or fails; a job that has
\* copied everything, or has failed, concludes (and stays listed, as
\* auto-dismiss is off)
HvJobProgress ==
  \E k \in 1..Len(hvJobs) :
    \E n \in {"copy", "abort", "conclude"} :
      LET j == hvJobs[k]
      IN /\ \/ n = "copy" /\ j.status = "running" /\ j.offset < j.len
            \/ n = "abort" /\ j.status = "running" /\ j.offset < j.len
            \/ n = "conclude" /\
                 \/ j.status = "running" /\ j.offset = j.len
                 \/ j.status = "aborting"
         /\ hvJobs' = [hvJobs EXCEPT ![k] =
              IF n = "copy" THEN [j EXCEPT !.offset = @ + 1]
              ELSE IF n = "abort" THEN [j EXCEPT !.status = "aborting"]
              ELSE [j EXCEPT !.status = "concluded"]]

hv_job_progress ==
  /\ bpc \in {"transaction", "thaw", "check", "query", "jobs"}
  /\ HvJobProgress
  /\ UNCHANGED <<inputVars, extVars, txVars, nodeVars, cancelVars, qga, bpc, finished,
                 jobs, stop_backup, raised, events, dismissedOk, pollBad,
                 iterStop>>

BackupNext ==
  \/ backup_start
  \/ backup_transaction_returns
  \/ backup_thaw
  \/ backup_check
  \/ backup_query
  \/ backup_job
  \/ backup_sleep
  \/ signal_received
  \/ hv_job_progress

SpecBackup == BackupInit /\ [][BackupNext]_vars

----------------------------------------------------------------------------
(* Specification SpecCancel: cancel_jobs() from its call to its return or  *)
(* its error, with the hypervisor's jobs reacting to its commands.         *)

limit == 60

\* a faulty variant: if len(jobs) <= 1
cancel_all_stopped_one_left(js) == Len(js) <= 1

\* if len(jobs) == 0
cancel_all_stopped(js) == Len(js) = 0

\* a faulty variant: every job of type backup is taken, whatever its device
cancel_job_command_any_backup(job) ==
  IF job.type # "backup" THEN "skip"
  ELSE IF job.status = "concluded" THEN "block-job-dismiss"
  ELSE "block-job-cancel"

\* cancel_jobs(): the command it sends for one job of the list
cancel_job_command(job) ==
  IF job.type # "backup" \/ ~StartsWith(job.device, <<"qmpbackup">>)
  THEN "skip"
  ELSE IF job.status = "concluded" THEN "block-job-dismiss"
  ELSE "block-job-cancel"

\* cancel_jobs(): the commands, with their arguments, it sends for one job
cancel_job_requests(job) ==
  LET command == cancel_job_command(job)
  IN IF command = "skip" THEN <<>>
     ELSE IF command = "block-job-dismiss"
     THEN << QmpCommand("block-job-dismiss", [id |-> job.device]) >>
     ELSE << QmpCommand("block-job-cancel",
                         [device |-> job.device, force |-> TRUE]) >>

\* the block jobs the hypervisor may hold when cancel_jobs() is called
CancelJobs ==
  { [device |-> <<"qmpbackup", ".", "disk", i, ".", "img">>, type |-> "backup",
     status |-> st, offset |-> 0, len |-> JobLen] :
       i \in 1..2, st \in {"running", "aborting", "concluded"} }
  \cup { [device |-> <<"qmpbackup", ".", "disk", 1, ".", "img">>,
          type |-> "backup", status |-> "concluded",
          offset |-> JobLen, len |-> JobLen],
         [device |-> <<"mirror", "0">>, type |-> "mirror",
          status |-> "running", offset |-> 0, len |-> JobLen],
         [device |-> <<"qmpbackup", ".", "mirror">>, type |-> "mirror",
          status |-> "concluded", offset |-> 0, len |-> JobLen],
         [device |-> <<"drive", "-", "backup">>, type |-> "backup",
          status |-> "running", offset |-> 0, len |-> JobLen] }

CancelJobLists ==
  { <<>> } \cup { <<j>> : j \in CancelJobs }
  \cup { q \in { <<j1, j2>> : j1 \in CancelJobs, j2 \in CancelJobs } :
           q[1].device # q[2].device }

CancelInit ==
  /\ argv \in BackupArgvSet
  /\ uuid = <<"U1">>
  /\ devices \in {ds \in BackupDeviceLists : Len(ds) = 1 /\ ds[1].device = DiskDevice(1)}
  /\ IdleTx
  /\ hvBitmaps = BitmapsOf(devices)
  /\ IdleNodes
  /\ hvJobs \in CancelJobLists
  /\ qga = FALSE
  /\ bpc = "idle"
  /\ finished = 0
  /\ jobs = <<>>
  /\ stop_backup = FALSE
  /\ raised = <<>>
  /\ events = <<>>
  /\ dismissedOk = {}
  /\ pollBad = FALSE
  /\ iterStop = FALSE
  /\ cpc = "query"
  /\ retry = 0
  /\ IdleExt

\* for retry in range(limit): if retry >= limit: break;
\* jobs = query-block-jobs; if len(jobs) == 0: return
cancel_jobs_query ==
  /\ cpc = "query"
  /\ retry \in 0..(limit - 1)
  /\ IF retry >= limit
     THEN cpc' = "returned" /\ UNCHANGED <<jobs, raised>>
     ELSE \/ /\ jobs' = hvJobs
             /\ cpc' = IF cancel_all_stopped(jobs') THEN "returned" ELSE "jobs"
             /\ raised' = raised
          \/ /\ cpc' = "raised"
             /\ raised' = <<"query-block-jobs">>
             /\ jobs' = jobs
  /\ UNCHANGED <<inputVars, extVars, txVars, nodeVars, hvJobs, qga, bpc, finished,
                 stop_backup, events, dismissedOk, pollBad, iterStop, retry>>

\* the body of `for job in jobs` for the next job of the list
cancel_jobs_job ==
  /\ cpc = "jobs"
  /\ jobs # <<>>
  /\ LET job == Head(jobs)
         command == cancel_job_command(job)
     IN \/ /\ command = "skip"
           /\ jobs' = Tail(jobs)
           /\ UNCHANGED <<hvJobs, cpc, raised>>
        \/ /\ command = "block-job-dismiss"
           \* the hypervisor drops the concluded job
           /\ \E k \in JobIndex(hvJobs, job.device) :
                /\ hvJobs[k].status = "concluded"
                /\ hvJobs' = RemoveAt(hvJobs, k)
           /\ jobs' = Tail(jobs)
           /\ UNCHANGED <<cpc, raised>>
        \/ /\ command = "block-job-cancel"
           \* the hypervisor takes the request: the job begins to stop
           \* now, or later, or not within the time cancel_jobs waits
           /\ \E k \in JobIndex(hvJobs, job.device) :
                /\ hvJobs[k].status \in {"running", "aborting"}
                /\ \/ hvJobs' = [hvJobs EXCEPT ![k].status = "aborting"]
                   \/ hvJobs' = hvJobs
           /\ jobs' = Tail(jobs)
           /\ UNCHANGED <<cpc, raised>>
        \/ /\ command # "skip"
           \* the command fails: _execute raises
           /\ cpc' = "raised"
           /\ raised' = <<command>>
           /\ UNCHANGED <<hvJobs, jobs>>
  /\ events' = cancel_job_requests(Head(jobs))
  /\ UNCHANGED <<inputVars, extVars, txVars, nodeVars, qga, bpc, finished,
                 stop_backup, dismissedOk, pollBad, iterStop, retry>>

\* await asyncio.sleep(1), then the next round, or the end of the loop
cancel_jobs_sleep ==
  /\ cpc = "jobs"
  /\ jobs = <<>>
  /\ retry' = retry + 1
  /\ cpc' = IF retry' \in 0..(limit - 1) THEN "query" ELSE "returned"
  /\ UNCHANGED <<inputVars, extVars, txVars, nodeVars, hvJobs, qga, bpc, finished,
                 jobs, stop_backup, raised, events, dismissedOk, pollBad,
                 iterStop>>

\* the hypervisor's jobs go on while cancel_jobs runs
hv_job_progress_cancel ==
  /\ cpc \in {"query", "jobs"}
  /\ HvJobProgress
  /\ UNCHANGED <<inputVars, extVars, txVars, nodeVars, cancelVars, qga, bpc, finished,
                 jobs, stop_backup, raised, events, dismissedOk, pollBad,
                 iterStop>>

CancelNext ==
  \/ cancel_jobs_query
  \/ cancel_jobs_job
  \/ cancel_jobs_sleep
  \/ hv_job_progress_cancel

SpecCancel == CancelInit /\ [][CancelNext]_vars

----------------------------------------------------------------------------
(* Claims                                                                  *)

BitmapActionTypes ==
  {"block-dirty-bitmap-add", "block-dirty-bitmap-clear",
   "block-dirty-bitmap-merge"}

\* the nodes a transaction action may name when it is about device d
NodesOfDevice(d) ==
  {d.node, get_node(d), <<"qmpbackup", "-">> \o d.node_safe \o <<"-", "snap">>}

ActionsOfType(d, types) ==
  {k \in 1..Len(actions) :
     /\ actions[k].type \in types
     /\ \/ actions[k].type \in BitmapActionTypes
           /\ actions[k].data["node"] \in NodesOfDevice(d)
        \/ actions[k].type = "blockdev-backup"
           /\ actions[k].data["device"] \in NodesOfDevice(d)}

\* C9: for a device of format raw, at every level and for every value of
\* has_bitmap, the transaction holds no bitmap action (add, clear, merge)
\* for that device, and its single blockdev-backup action has sync=full,
\* no bitmap argument and compress=false.
C9_RawDeviceFullSyncNoBitmap ==
  txState # "none" =>
    \A i \in 1..Len(devices) :
      devices[i].format = "raw" =>
        /\ ActionsOfType(devices[i], BitmapActionTypes) = {}
        /\ Cardinality(ActionsOfType(devices[i], {"blockdev-backup"})) = 1
        /\ \A k \in ActionsOfType(devices[i], {"blockdev-backup"}) :
              /\ actions[k].data["sync"] = "full"
              /\ "bitmap" \notin DOMAIN actions[k].data
              /\ actions[k].data["compress"] = FALSE

\* C10: prepare_transaction never emits block-dirty-bitmap-add for a
\* (node, name) pair that is already in the device's bitmap list, for every
\* level and every bitmap list the run may find.
C10_NoAddOfExistingBitmap ==
  txState # "none" =>
    \A k \in 1..Len(actions) :
      actions[k].type = "block-dirty-bitmap-add" =>
        [node |-> actions[k].data["node"], name |-> actions[k].data["name"]]
          \notin BitmapsOf(devices)

OpOk(op) == opResult[op] = "ok"
OpNotCalled(op) == opResult[op] = "none"

\* the names of the nodes this run has attached
RunNodeNames == NodeNames(hvNodes) \ NodeNames(preNodes)

\* the CBW filter node of the run for a device
CbwNodeOf(d) == add_cbw_device_cmd(argv, d, uuid).arguments["node-name"]

\* C6: a device's qdev drive property only ever is its original node or
\* the run's CBW filter node for that device; when blockdev_replace with
\* action disable returns, every device's drive is device.node (its
\* value before the run) whatever it was.
C6_DriveOriginalOrCbw ==
  /\ [](\A i \in 1..Len(devices) :
          drive[devices[i].qdev] \in {devices[i].node, CbwNodeOf(devices[i])})
  /\ [][(/\ OpNotCalled("blockdev_replace_disable")
         /\ opResult'["blockdev_replace_disable"] = "ok")
        => \A i \in 1..Len(devices) :
             /\ drive'[devices[i].qdev] = devices[i].node
             /\ drive'[devices[i].qdev] = VmDrive[devices[i].qdev]]_vars

\* C6 witness: the filter was activated for two devices and then disabled,
\* and both drives are back at the original node.
C6_Witness ==
  /\ Len(devices) >= 2
  /\ OpOk("blockdev_replace_activate")
  /\ OpOk("blockdev_replace_disable")
  /\ drive = VmDrive

\* the blockdev-backup actions of the transaction, one per device
BackupActions ==
  SelectSeq(prepare_transaction(argv, devices, uuid),
            LAMBDA a : a.type = "blockdev-backup")

\* C7: node names agree across attach, transaction and detach: once an
\* attach operation has succeeded (and the matching remove has not run),
\* the node every other operation names for that role is a node this run
\* has attached; after all attach and all remove operations succeeded the
\* hypervisor's nodes are those from before the run.
C7_NodeNamesAgree ==
  /\ (OpOk("prepare_target_devices") /\ OpNotCalled("remove_target_devices")) =>
       \A i \in 1..Len(devices) :
         /\ BackupActions[i].data["target"] \in RunNodeNames
         /\ remove_target_devices_targetdev(devices[i]) \in RunNodeNames
  /\ (OpOk("prepare_fleece_devices") /\ OpNotCalled("remove_fleece_devices")) =>
       \A i \in 1..Len(devices) :
         /\ add_cbw_device_cmd(argv, devices[i], uuid).arguments["target"]
              \in RunNodeNames
         /\ remove_fleece_devices_targetdev(devices[i]) \in RunNodeNames
  /\ (OpOk("add_cbw_device") /\ OpNotCalled("remove_cbw_devices")) =>
       \A i \in 1..Len(devices) :
         /\ add_snapshot_access_devices_cmd(devices[i]).arguments["file"]
              \in RunNodeNames
         /\ blockdev_replace_target(devices[i], "activate") \in RunNodeNames
         /\ remove_cbw_devices_targetdev(devices[i]) \in RunNodeNames
  /\ (OpOk("add_snapshot_access_devices")
        /\ OpNotCalled("remove_snapshot_access_devices")) =>
       \A i \in 1..Len(devices) :
         /\ argv.no_fleece = FALSE =>
              BackupActions[i].data["device"] \in RunNodeNames
         /\ remove_snapshot_access_devices_targetdev(devices[i]) \in RunNodeNames
  /\ (\A op \in AttachOps \cup RemoveOps : OpOk(op)) => hvNodes = preNodes

\* C7 witness: every attach and every remove operation has succeeded for
\* two devices.
C7_Witness ==
  /\ Len(devices) >= 2
  /\ \A op \in AttachOps \cup RemoveOps : OpOk(op)
  /\ hvNodes = preNodes

\* C8: no detach operation raises: a blockdev-del that fails for one
\* device (its node is not attached) is tolerated and the remaining
\* devices' nodes are still detached.
C8_DetachNeverRaises ==
  \A op \in RemoveOps : opResult[op] # "raised"


----------------------------------------------------------------------------
(* Claims about backup() and cancel_jobs()                                 *)

\* C1: backup() returns normally only after each job its own transaction
\* started was seen concluded with offset = len and was dismissed,
\* whatever other block jobs the hypervisor lists.
C1_ReturnsAfterOwnJobsDismissed ==
  bpc = "returned" => JobIdsOf(actions) \subseteq dismissedOk

\* C2: with a guest agent, thaw is issued only after the one transaction
\* command has returned successfully and before the first
\* query-block-jobs; never before or while the transaction is submitted,
\* and never without a guest agent.
C2_ThawAfterTransactionBeforePoll ==
  /\ qga = FALSE => "thaw" \notin SeqToSet(events)
  /\ bpc \in {"start", "transaction"} => "thaw" \notin SeqToSet(events)
  /\ Cardinality({i \in 1..Len(events) : events[i] = "transaction_sent"}) <= 1
  /\ \A i \in 1..Len(events) :
       events[i] = "thaw" =>
         /\ \E j \in 1..(i - 1) : events[j] = "transaction_returned"
         /\ \A j \in 1..(i - 1) : events[j] # "poll"

C2_Witness ==
  /\ qga = TRUE
  /\ events = <<"transaction_sent", "transaction_returned", "thaw", "poll">>

\* C3 as stated: when cancel_jobs returns, the hypervisor lists no job of
\* type backup whose device starts with qmpbackup.
C3_NoBackupJobAtReturn ==
  cpc = "returned" => \A k \in 1..Len(hvJobs) : ~Qualifies(hvJobs[k])

\* C3 as the code has it: when cancel_jobs returns before it has run all
\* the rounds of its loop, its last query-block-jobs was empty, so the
\* hypervisor lists no job at all (and so no qmpbackup backup job); after
\* the last round it returns with whatever jobs are left.
C3_EarlyReturnMeansNoJobs ==
  (cpc = "returned" /\ retry < limit) => (jobs = <<>> /\ hvJobs = <<>>)

C3_Witness ==
  /\ cpc = "returned"
  /\ retry = 2
  /\ hvJobs = <<>>

\* C4: a poll that lists a qualifying job with status aborting or
\* undefined, or concluded with offset # len, does not end in backup()
\* returning success.
C4_FailedJobNeverSuccess ==
  bpc = "returned" => ~pollBad

\* C5: an iteration of the polling loop that begins with the stop flag
\* set raises the controlled failure, and nothing else: no query, no
\* dismiss, no later iteration.
C5_StopFlagRaisesNextIteration ==
  iterStop => (bpc = "raised" /\ raised = <<"signal">>)

C5_Witness ==
  /\ iterStop
  /\ bpc = "raised"
  /\ "poll" \in SeqToSet(events)
  /\ dismissedOk # {}

----------------------------------------------------------------------------
(* Claims about the jobs of the transaction                                *)

\* the blockdev-backup actions of the prepared transaction, in order
TxBackupActions == SelectSeq(actions, LAMBDA a : a.type = "blockdev-backup")

\* the job the hypervisor lists for a blockdev-backup action
JobOfAction(a) ==
  [device |-> a.data["job-id"], type |-> "backup", status |-> "running",
   offset |-> 0, len |-> 1]

\* C11: at every level and for every device list the transaction holds
\* exactly one blockdev-backup action per device, in device order, with
\* job id qmpbackup.{node_safe}.{basename(filename)} and auto-dismiss
\* false; the job it starts passes the filter of backup() and cancel_jobs
\* and is not skipped by either; the devices of a list have different
\* job ids.
C11_OneBackupJobPerDevice ==
  txState # "none" =>
    /\ Len(TxBackupActions) = Len(devices)
    /\ \A i \in 1..Len(devices) :
         LET a == TxBackupActions[i]
         IN /\ a.data["job-id"] =
                 <<"qmpbackup", ".">> \o devices[i].node_safe \o <<".">>
                   \o Basename(devices[i].filename)
            /\ a.data["auto-dismiss"] = FALSE
            /\ a.data["target"] = <<"qmpbackup", "-">> \o devices[i].node_safe
            /\ Qualifies(JobOfAction(a))
            /\ backup_job_decision(JobOfAction(a)) # "skip"
    /\ \A i, j \in 1..Len(devices) :
         i # j => TxBackupActions[i].data["job-id"]
                    # TxBackupActions[j].data["job-id"]

C11_Witness ==
  /\ txState = "applied"
  /\ Len(devices) = 2
  /\ argv.level = "inc"
  /\ devices[1].node # devices[1].node_safe
  /\ Len(actions) > Len(devices)

----------------------------------------------------------------------------
(* Specification SpecConnect: _execute() for the monitor commands of a     *)
(* run, each with its own _connect(), command and _disconnect().           *)

MaxRetry == 4
MaxCommands == 3

ConnectInit ==
  /\ IdleCore
  /\ connection_retry \in 0..MaxRetry
  /\ commandsLeft \in 1..MaxCommands
  /\ kpc = "connect"
  /\ conn_retry = 0
  /\ conn_iter = 0
  /\ connected = FALSE
  /\ attempts = 0
  /\ sentUnconnected = FALSE
  /\ IdleAgent
  /\ IdleCreate
  /\ IdlePost
  /\ IdleDev

\* one pass of `for _ in range(0, max_retry)`: qmp.connect succeeds
\* (break), or fails with ConnectError (retry += 1; sleep(1); continue,
\* or sys.exit(1))
connect_attempt ==
  /\ kpc = "connect"
  /\ conn_iter < connection_retry
  /\ attempts' = attempts + 1
  /\ \/ /\ connected' = TRUE
        /\ kpc' = "execute"
        /\ UNCHANGED <<conn_retry, conn_iter>>
     \/ /\ connected' = FALSE
        /\ IF conn_retry <= connection_retry
           THEN /\ conn_retry' = conn_retry + 1
                /\ conn_iter' = conn_iter + 1
                /\ kpc' = kpc
           ELSE /\ kpc' = "exited"
                /\ UNCHANGED <<conn_retry, conn_iter>>
  /\ UNCHANGED <<coreVars, agentVars, createVars, postVars, devVars, connection_retry, commandsLeft, sentUnconnected>>

\* the loop of _connect ends without a break: _connect returns
connect_exhausted ==
  /\ kpc = "connect"
  /\ conn_iter = connection_retry
  /\ kpc' = "execute"
  /\ UNCHANGED <<coreVars, agentVars, createVars, postVars, devVars, connection_retry, conn_retry, conn_iter, connected,
                 commandsLeft, attempts, sentUnconnected>>

\* res = await self.qmp.execute(...); finally: self._disconnect(); the
\* result is returned, or RuntimeError raised
execute_command ==
  /\ kpc = "execute"
  /\ sentUnconnected' = (sentUnconnected \/ ~connected)
  /\ connected' = FALSE
  /\ \/ /\ connected
        /\ commandsLeft' = commandsLeft - 1
        /\ kpc' = IF commandsLeft' = 0 THEN "done" ELSE "connect"
        /\ conn_retry' = 0
        /\ conn_iter' = 0
        /\ attempts' = 0
     \/ \* the command fails: RuntimeError; when it fails because the
        \* connection broke, qmp.disconnect() in the finally clause raises
        \* the error of the broken connection in its place
        /\ \E broken \in BOOLEAN :
             kpc' = IF connected /\ broken THEN "raised_by_disconnect"
                    ELSE "raised"
        /\ UNCHANGED <<commandsLeft, conn_retry, conn_iter, attempts>>
  /\ UNCHANGED <<coreVars, agentVars, createVars, postVars, devVars, connection_retry>>

ConnectNext ==
  \/ connect_attempt
  \/ connect_exhausted
  \/ execute_command

SpecConnect == ConnectInit /\ [][ConnectNext]_vars

\* C12: _connect makes at most connection_retry attempts and stops at the
\* first success; when every attempt has failed no monitor command is
\* sent: the run has ended instead.
C12_NoCommandWithoutConnection ==
  /\ attempts <= connection_retry
  /\ (connected /\ kpc = "execute") => attempts = conn_iter + 1
  /\ kpc = "execute" => connected
  /\ ~sentUnconnected

----------------------------------------------------------------------------
(* qa.py, qaclient.py, fs.py, lib.py: the guest agent                      *)

\* What can happen to one command on the agent socket: a reply with
\* "return", a reply with "error", end of file on read (the peer closed),
\* EPIPE on send, another OSError on send, a timeout on read.
WireOutcomes == {"return", "error", "eof", "epipe", "oserror", "timeout"}

\* QEMUMonitorProtocol.cmd_obj and command: the value returned, or the
\* exception raised. End of file gives None and EPIPE gives the error
\* object, and `"error" in ret` on either raises TypeError.
qa_command(outcome, value) ==
  IF outcome = "return" THEN [raises |-> "none", value |-> value]
  ELSE IF outcome = "error" THEN [raises |-> "RuntimeError", value |-> "none"]
  ELSE IF outcome \in {"eof", "epipe"}
  THEN [raises |-> "TypeError", value |-> "none"]
  ELSE IF outcome = "oserror" THEN [raises |-> "OSError", value |-> "none"]
  ELSE [raises |-> "timeout", value |-> "none"]

\* QemuGuestAgentClient.fsfreeze as get_state, quiesce and thaw see it:
\* the value, "error" for RuntimeError, "closed" for any other exception
fsfreeze(outcome, value) ==
  LET r == qa_command(outcome, value)
  IN IF r.raises = "none" THEN r.value
     ELSE IF r.raises = "RuntimeError" THEN "error"
     ELSE "closed"

\* fs.quiesce: "True", "False", or "raise" when an exception leaves it
quiesce(statusReply, freezeReply) ==
  LET fsstate == get_state(statusReply)
  IN IF fsstate = "raise" THEN "raise"
     ELSE IF fsstate = "frozen" THEN "True"
     ELSE IF freezeReply = "error" THEN "False"
     ELSE IF freezeReply = "closed" THEN "raise"
     ELSE "True"

\* QemuGuestAgentClient.ping: True, False on a timeout, or the exception
qaclient_ping(outcome) ==
  LET r == qa_command(outcome, "pong")
  IN IF r.raises = "none" THEN "True"
     ELSE IF r.raises = "timeout" THEN "False"
     ELSE "raise"

\* QmpBackup.connect_qaagent: "qga", "False", or "raise"
connect_qaagent(socketOk, pingOutcome, infoOutcome, freezeSupported) ==
  IF ~socketOk THEN "False"
  ELSE IF qaclient_ping(pingOutcome) = "False" THEN "False"
  ELSE IF qaclient_ping(pingOutcome) = "raise" THEN "raise"
  ELSE IF qa_command(infoOutcome, "info").raises # "none" THEN "raise"
  ELSE IF ~freezeSupported THEN "False"
  ELSE "qga"

----------------------------------------------------------------------------
(* Specification SpecAgent: connect_qaagent, then with an agent quiesce    *)
(* before the backup and thaw in it, for every reply of the agent.         *)

AgentInit ==
  /\ IdleCore
  /\ IdleConn
  /\ apc = "connect_qaagent"
  /\ aqga = FALSE
  /\ aborted = "none"
  /\ alog = <<>>
  /\ IdleCreate
  /\ IdlePost
  /\ IdleDev

agent_connect ==
  /\ apc = "connect_qaagent"
  /\ \E socketOk \in BOOLEAN, pingOutcome \in WireOutcomes,
        infoOutcome \in WireOutcomes, freezeSupported \in BOOLEAN :
       LET r == connect_qaagent(socketOk, pingOutcome, infoOutcome,
                                freezeSupported)
       IN /\ aqga' = (r = "qga")
          /\ aborted' = IF r = "raise" THEN "connect_qaagent" ELSE aborted
          /\ apc' = IF r = "qga" THEN "quiesce"
                    ELSE IF r = "raise" THEN "aborted" ELSE "done"
          /\ alog' = Append(alog,
               <<"connect_qaagent",
                 IF ~socketOk THEN "socket.error" ELSE pingOutcome,
                 IF socketOk /\ pingOutcome = "return"
                 THEN infoOutcome ELSE "none", r>>)
  /\ UNCHANGED <<coreVars, connVars, createVars, postVars, devVars>>

agent_quiesce ==
  /\ apc = "quiesce"
  /\ \E so \in WireOutcomes, sv \in {"frozen", "thawed"},
        fo \in WireOutcomes :
       LET r == quiesce(fsfreeze(so, sv), fsfreeze(fo, "1"))
       IN /\ aborted' = IF r = "raise" THEN "quiesce" ELSE aborted
          /\ apc' = IF r = "raise" THEN "aborted" ELSE "thaw"
          /\ alog' = Append(alog, <<"quiesce", so, fo, r>>)
  /\ UNCHANGED <<coreVars, connVars, createVars, postVars, devVars, aqga>>

agent_thaw ==
  /\ apc = "thaw"
  /\ \E so \in WireOutcomes, sv \in {"frozen", "thawed"},
        fo \in WireOutcomes :
       LET r == thaw(fsfreeze(so, sv), fsfreeze(fo, "1")).result
       IN /\ aborted' = IF r = "raise" THEN "thaw" ELSE aborted
          /\ apc' = IF r = "raise" THEN "aborted" ELSE "done"
          /\ alog' = Append(alog, <<"thaw", so, fo, r>>)
  /\ UNCHANGED <<coreVars, connVars, createVars, postVars, devVars, aqga>>

AgentNext ==
  \/ agent_connect
  \/ agent_quiesce
  \/ agent_thaw

SpecAgent == AgentInit /\ [][AgentNext]_vars

\* C13: a guest-agent failure never aborts the run: connect_qaagent
\* returns False on a socket error, a ping timeout and a missing freeze
\* command, and no exception leaves quiesce or thaw, whatever the status,
\* freeze or thaw command does (error reply, timeout, closed connection).
C13_AgentFailureNeverAborts ==
  /\ aborted \notin {"quiesce", "thaw"}
  /\ \A k \in 1..Len(alog) :
       (alog[k][1] = "connect_qaagent"
          /\ alog[k][2] \in {"socket.error", "timeout"}) => alog[k][4] = "False"

----------------------------------------------------------------------------
(* image.py: create                                                        *)

\* os.path.dirname(s): the text before the last "/"
Dirname(s) ==
  LET slashes == {i \in 1..Len(s) : s[i] = "/"}
      last == CHOOSE i \in slashes : \A j \in slashes : j <= i
  IN SubSeq(s, 1, last - 1)

\* argv.level.upper()
Upper(level) ==
  CASE level = "full" -> "FULL" [] level = "inc" -> "INC"
    [] level = "diff" -> "DIFF" [] level = "copy" -> "COPY"
    [] OTHER -> level

\* the backup directory given on the command line, and int(time())
BackupDir == <<"/", "backup">>
Timestamp == <<"T">>

\* create: the name of the device's directory below the backup directory
create_nodname(dev) ==
  IF StartsWith(dev.node, <<"#", "block">>) THEN dev.device ELSE dev.node

\* create: the target file of a device
create_target(a, dev) ==
  LET targetdir == IF a.no_subdir = TRUE THEN BackupDir
                   ELSE BackupDir \o <<"/">> \o create_nodname(dev)
      filename ==
        IF a.no_timestamp /\ a.level \in {"copy", "full"}
        THEN Basename(dev.filename) \o <<".partial">>
        ELSE <<Upper(a.level), "-">> \o Timestamp \o <<"-">>
               \o Basename(dev.filename) \o <<".partial">>
  IN targetdir \o <<"/">> \o filename

\* create: the fleecing file of a device, beside the device's image
create_fleece_targetfile(a, dev) ==
  Dirname(dev.filename) \o <<"/", Upper(a.level), "-">> \o Timestamp
    \o <<"-">> \o create_nodname(dev) \o <<".fleece.", dev.format>>

\* save_info, _get_options_cmd: the .config file of a device
infofile(dev) == BackupDir \o <<"/">> \o Basename(dev.filename) \o <<".config">>

\* the image information qemu-img info prints, reduced to the three keys
\* _get_options_cmd reads; a key may be missing
ConfigFull == [compat |-> "1.1", lazy_refcounts |-> TRUE]
                @@ ("cluster-size" :> "64k")
ConfigOld == [compat |-> "0.10", lazy_refcounts |-> FALSE]
               @@ ("cluster-size" :> "128k")
ConfigBare == [virtual_size |-> "S"]
ConfigSet == { ConfigFull, ConfigOld, ConfigBare }

\* _get_options_cmd: "-o" is appended before the key is read, so a
\* missing key (KeyError) leaves the "-o" in the list
get_options_cmd(qcow_config) ==
  <<"-o">>
  \o (IF "compat" \in DOMAIN qcow_config
      THEN << <<"compat=", qcow_config.compat>> >> ELSE <<>>)
  \o <<"-o">>
  \o (IF "cluster-size" \in DOMAIN qcow_config
      THEN << <<"cluster_size=", qcow_config["cluster-size"]>> >> ELSE <<>>)
  \o (IF "lazy_refcounts" \in DOMAIN qcow_config /\ qcow_config.lazy_refcounts
      THEN << "-o", <<"lazy_refcounts=", "on">> >> ELSE <<>>)

\* create: the options after a device: those before it and, for a device
\* that is not raw, those of its .config file
create_opt(before, dev, cfgs) ==
  IF dev.format # "raw" THEN before \o get_options_cmd(cfgs[infofile(dev)])
  ELSE before

\* create: the qemu-img create command of the target
create_cmd(a, dev, options) ==
  << "qemu-img", "create", "-f", dev.format, create_target(a, dev), "-o",
     <<"size=", "S">> >>
  \o (IF dev.format # "raw" THEN options ELSE <<>>)

\* create: the qemu-img create command of the fleecing file
create_fleece_cmd(a, dev) ==
  << "qemu-img", "create", "-f", dev.format,
     create_fleece_targetfile(a, dev), "-o", <<"size=", "S">> >>

----------------------------------------------------------------------------
(* Specification SpecCreate: image.create for a device list, in a backup   *)
(* directory that may hold files of earlier or concurrent runs.            *)

CreateArgvSet ==
  { a @@ [no_timestamp |-> nt, no_subdir |-> ns] :
      a \in {x \in ArgvSet : ~x.no_persist /\ ~x.no_fleece /\ ~x.compress},
      nt \in BOOLEAN, ns \in BOOLEAN }

CreateDeviceLists ==
  {ds \in DeviceLists(PyNone) : \A i \in 1..Len(ds) : ds[i].bitmaps = <<>>}

CreateInit ==
  /\ argv \in CreateArgvSet
  /\ uuid = PyNone
  /\ devices \in CreateDeviceLists
  /\ IdleTx
  /\ hvBitmaps = {}
  /\ IdleNodes
  /\ IdleJobs
  /\ IdleCancel
  /\ IdleConn
  /\ IdleAgent
  /\ files \in SUBSET ({create_target(argv, devices[i]) : i \in 1..Len(devices)}
                        \cup {create_fleece_targetfile(argv, devices[1])})
  /\ cidx = 0
  /\ cres = "running"
  /\ backup_targets = {}
  /\ fleece_targets = {}
  /\ clobbered = {}
  /\ opt = <<>>
  /\ create_cmds = <<>>
  /\ imginfo = [f \in {devices[i].filename : i \in 1..Len(devices)}
                  |-> ConfigFull]
  /\ configs = [f \in {infofile(devices[i]) : i \in 1..Len(devices)}
                  |-> ConfigFull]
  /\ IdlePost
  /\ IdleDev

\* one pass of `for dev in blockdev`: qemu-img create for the target, then
\* for the fleecing file; the tool writes the file whether or not one is
\* there, or exits non-zero (CalledProcessError, raised as RuntimeError)
create_device ==
  /\ cres = "running"
  /\ cidx < Len(devices)
  /\ LET dev == devices[cidx + 1]
         target == create_target(argv, dev)
         fleece == create_fleece_targetfile(argv, dev)
         cmd == create_cmd(argv, dev, create_opt(opt, dev, configs))
         fleece_cmd == create_fleece_cmd(argv, dev)
     IN /\ opt' = create_opt(opt, dev, configs)
        /\ \E o1 \in {"ok", "nonzero"}, o2 \in {"ok", "nonzero"} :
             IF o1 = "nonzero"
             THEN /\ cres' = "raised"
                  /\ create_cmds' = Append(create_cmds, cmd)
                  /\ UNCHANGED <<files, cidx, backup_targets, fleece_targets,
                                 clobbered>>
             ELSE IF o2 = "nonzero"
             THEN /\ cres' = "raised"
                  /\ create_cmds' = create_cmds \o <<cmd, fleece_cmd>>
                  /\ files' = files \cup {target}
                  /\ clobbered' = clobbered \cup ({target} \cap files)
                  /\ backup_targets' =
                       backup_targets \cup {<<dev.node, target>>}
                  /\ UNCHANGED <<cidx, fleece_targets>>
             ELSE /\ create_cmds' = create_cmds \o <<cmd, fleece_cmd>>
                  /\ files' = files \cup {target, fleece}
                  /\ clobbered' = clobbered \cup ({target, fleece} \cap files)
                  /\ backup_targets' =
                       backup_targets \cup {<<dev.node, target>>}
                  /\ fleece_targets' =
                       fleece_targets \cup {<<dev.node, fleece>>}
                  /\ cidx' = cidx + 1
                  /\ cres' = cres
  /\ UNCHANGED <<coreVars, connVars, agentVars, postVars, devVars, configs,
                 imginfo>>

\* return backup_targets, fleece_targets
create_return ==
  /\ cres = "running"
  /\ cidx = Len(devices)
  /\ cres' = "returned"
  /\ UNCHANGED <<coreVars, connVars, agentVars, postVars, devVars, files,
                 cidx, backup_targets, fleece_targets, clobbered, opt,
                 create_cmds, configs, imginfo>>

CreateNext ==
  \/ create_device
  \/ create_return

SpecCreate == CreateInit /\ [][CreateNext]_vars

\* C14: create never writes over a file that is already there: when the
\* target or the fleecing file it is about to create exists, it raises
\* and leaves the file alone.
C14_ExistingFileNeverOverwritten ==
  clobbered = {}

----------------------------------------------------------------------------
(* Specification SpecCreateRun: save_info, then create, for one or two     *)
(* disks whose images may have the same name in different directories      *)

\* The first disk has a generated node name (create falls back to its
\* device name), the second a given one; no disk is an RBD image.
RunDisks ==
  [ one |-> { BlockDev(DiskDevice(1), f, <<"/", "vm1", "/", "disk">>, <<>>,
                     DiskNode(1), DiskQdev(1), DiskChild(1), PyNone)
            : f \in {"raw", "qcow2"} },
    two |-> { BlockDev(DiskDevice(2), f, n, <<>>, DiskNode(2), DiskQdev(2),
                     DiskChild(2), PyNone)
            : f \in {"raw", "qcow2"},
              n \in { <<"/", "vm2", "/", "disk">>, <<"/", "vm", "/", "img2">> } } ]

RunDeviceLists ==
  { <<a>> : a \in RunDisks.one } \cup { <<b>> : b \in RunDisks.two }
  \cup { <<a, b>> : a \in RunDisks.one, b \in RunDisks.two }
  \cup { <<b, a>> : a \in RunDisks.one, b \in RunDisks.two }

RunArgvSet ==
  { a @@ [no_timestamp |-> nt, no_subdir |-> ns] :
      a \in {x \in ArgvSet : x.level = "full" /\ ~x.no_persist /\ ~x.compress},
      nt \in BOOLEAN, ns \in BOOLEAN }

CreateRunInit ==
  /\ argv \in RunArgvSet
  /\ uuid = PyNone
  /\ devices \in RunDeviceLists
  /\ imginfo \in [{devices[i].filename : i \in 1..Len(devices)} -> ConfigSet]
  /\ configs = <<>>
  /\ files = {}
  /\ cidx = 0
  /\ cres = "save_info"
  /\ backup_targets = {}
  /\ fleece_targets = {}
  /\ clobbered = {}
  /\ opt = <<>>
  /\ create_cmds = <<>>
  /\ IdleTx
  /\ hvBitmaps = {}
  /\ IdleNodes
  /\ IdleJobs
  /\ IdleCancel
  /\ IdleConn
  /\ IdleAgent
  /\ IdlePost
  /\ IdleDev

\* the .config files after save_info has written those of the first n
\* devices: open(infofile, "wb+") replaces a file that is there
RECURSIVE saved_infos(_, _, _, _)
saved_infos(cfgs, devs, info, n) ==
  IF n = 0 THEN cfgs
  ELSE LET before == saved_infos(cfgs, devs, info, n - 1)
           path == infofile(devs[n])
       IN [f \in DOMAIN before \cup {path} |->
             IF f = path THEN info[devs[n].filename] ELSE before[f]]

\* save_info(backupdir, blockdev): for every device the output of
\* qemu-img info is written to its .config file; a qemu-img that exits
\* non-zero ends the loop with RuntimeError
save_info ==
  /\ cres = "save_info"
  /\ \E n \in 0..Len(devices) :
       /\ configs' = saved_infos([f \in {} |-> ConfigBare], devices, imginfo, n)
       /\ cres' = IF n = Len(devices) THEN "running" ELSE "raised"
  /\ UNCHANGED <<coreVars, connVars, agentVars, postVars, devVars, files,
                 cidx, backup_targets, fleece_targets, clobbered, opt,
                 create_cmds, imginfo>>

CreateRunNext ==
  \/ save_info
  \/ create_device
  \/ create_return

SpecCreateRun == CreateRunInit /\ [][CreateRunNext]_vars

\* the qemu-img create command of the target of device i: create runs one
\* for the target and one for the fleecing file, device by device
TargetCmd(i) == create_cmds[2 * i - 1]
HasTargetCmd(i) == 2 * i - 1 <= Len(create_cmds)

\* the options of a command after its size
OptionsOf(cmd) == SubSeq(cmd, 8, Len(cmd))

\* the fleecing files of the devices
FleeceFiles ==
  { create_fleece_targetfile(argv, devices[i]) : i \in 1..Len(devices) }

\* C36: with no_fleece set create makes no fleecing file: it runs no
\* command for one and returns none.
C36_NoFleecingFileWithNoFleece ==
  argv.no_fleece
  => /\ fleece_targets = {}
     /\ \A k \in 1..Len(create_cmds) : create_cmds[k][5] \notin FleeceFiles

\* what create does, no_fleece set or not: when it has returned, every
\* device has its fleecing file
C36_FleecingFileAlways ==
  cres = "returned"
  => \A i \in 1..Len(devices) :
       /\ <<devices[i].node, create_fleece_targetfile(argv, devices[i])>>
            \in fleece_targets
       /\ create_cmds[2 * i][5] = create_fleece_targetfile(argv, devices[i])

\* the options the claim derives from a config: each key's option iff the
\* key is there, lazy_refcounts only when true
OptionsByConfig(c) ==
  (IF "compat" \in DOMAIN c THEN << "-o", <<"compat=", c.compat>> >>
   ELSE <<>>)
  \o (IF "cluster-size" \in DOMAIN c
      THEN << "-o", <<"cluster_size=", c["cluster-size"]>> >> ELSE <<>>)
  \o (IF "lazy_refcounts" \in DOMAIN c /\ c.lazy_refcounts
      THEN << "-o", <<"lazy_refcounts=", "on">> >> ELSE <<>>)

\* C37: the options of the command that creates a target that is not raw
\* are those of the device's own .config file, key by key, with no option
\* flag without value and nothing of another device's config; a raw
\* target gets its size only.
C37_OptionsOfOwnConfigOnly ==
  \A i \in 1..Len(devices) :
    HasTargetCmd(i)
    => OptionsOf(TargetCmd(i)) =
         IF devices[i].format = "raw" THEN <<>>
         ELSE OptionsByConfig(configs[infofile(devices[i])])

\* where the claim holds: the first device that is not raw, with a config
\* that has the compat and the cluster-size key; raw targets
C37_FirstCompleteConfig ==
  \A i \in 1..Len(devices) :
    HasTargetCmd(i)
    => LET c == configs[infofile(devices[i])]
       IN /\ devices[i].format = "raw" => OptionsOf(TargetCmd(i)) = <<>>
          /\ ( /\ devices[i].format # "raw"
               /\ \A j \in 1..(i - 1) : devices[j].format = "raw"
               /\ {"compat", "cluster-size"} \subseteq DOMAIN c )
             => OptionsOf(TargetCmd(i)) = OptionsByConfig(c)

\* C38: two distinct devices of a run have different target files and
\* different .config files, and the .config file of a device holds the
\* information of its own image.
C38_ArtifactsPerDevice ==
  cres \in {"running", "returned"}
  => /\ \A i, j \in 1..Len(devices) :
          i # j => /\ create_target(argv, devices[i])
                        # create_target(argv, devices[j])
                   /\ infofile(devices[i]) # infofile(devices[j])
     /\ \A i \in 1..Len(devices) :
          configs[infofile(devices[i])] = imginfo[devices[i].filename]

\* where the claim holds: images of different names; and the targets of
\* images of the same name when each device has its directory
C38_DistinctImageNames ==
  cres \in {"running", "returned"}
  => \A i, j \in 1..Len(devices) :
       i # j
       => /\ Basename(devices[i].filename) # Basename(devices[j].filename)
             => /\ create_target(argv, devices[i])
                     # create_target(argv, devices[j])
                /\ infofile(devices[i]) # infofile(devices[j])
                /\ configs[infofile(devices[i])] = imginfo[devices[i].filename]
          /\ ~argv.no_subdir
             => create_target(argv, devices[i])
                  # create_target(argv, devices[j])

----------------------------------------------------------------------------
(* lib.py, image.py: post-processing of a backup directory                 *)

\* `text in name` for the texts the code looks for ("FULL-", ".partial")
Contains(name, text) == \E k \in 1..Len(name) : name[k] = text

\* Python's list[i] for i >= 0 and for negative i
At(list, i) == IF i >= 0 THEN list[i + 1] ELSE list[Len(list) + i + 1]

\* Python's list.index(x)
IndexOf(list, x) ==
  (CHOOSE k \in 1..Len(list) :
     list[k] = x /\ \A j \in 1..(k - 1) : list[j] # x) - 1

\* a faulty variant: only a name that ends with .partial counts, and only
\* for the newest file
has_partial_newest(images_flat) ==
  images_flat # <<>> /\ EndsWith(images_flat[Len(images_flat)], <<".partial">>)

\* if ".partial" in " ".join(images_flat)
has_partial(images_flat) ==
  \E k \in 1..Len(images_flat) : Contains(images_flat[k], ".partial")

\* a faulty variant: the image named by --until is skipped as well
until_skips_named(until, idx, sidx) == until # PyNone /\ idx + 1 >= sidx

\* if until is not None and idx >= sidx
until_skips(until, idx, sidx) == until # PyNone /\ idx >= sidx

\* QmpBackup.rebase up to its loop: "loop", or "False" for a refusal
lib_rebase_head(images, until) ==
  IF until # PyNone /\ until \notin SeqToSet(images) THEN "False"
  ELSE IF Len(images) = 0 THEN "False"
  ELSE IF has_partial(images) THEN "False"
  ELSE IF ~Contains(At(images, 0), "FULL-") THEN "False"
  ELSE IF Contains(At(images, -1), "FULL-") THEN "False"
  ELSE "loop"

\* the k-th pass (k = 1, 2, ...) of `for image in reversed(images)` in
\* QmpBackup.rebase and image.rebase: the image, idx after `idx = idx - 1`,
\* and what the pass does: "skip", "break" or "process"
rebase_pass(images, until, k) ==
  LET image == At(images, Len(images) - k)
      idx == (Len(images) - 1) - k
      sidx == IF until # PyNone THEN IndexOf(images, until) ELSE 0
  IN [image |-> image,
      idx |-> idx,
      does |-> IF until_skips(until, idx, sidx) THEN "skip"
               ELSE IF IndexOf(images, image) = 0
                       \/ Contains(At(images, IndexOf(images, image)), "FULL-")
               THEN "break"
               ELSE "process"]

\* QmpBackup.rebase: the commands of a pass that processes an image
lib_rebase_commands(images, dry_run, image, idx) ==
  IF dry_run THEN <<>>
  ELSE << <<"check", image>>,
          <<"rebase", image, At(images, idx)>>,
          <<"commit", image>> >>

\* the commands that change an image, the chain or the directory
Modifying == {"rebase", "commit", "snapshot-create", "remove", "symlink"}

----------------------------------------------------------------------------
(* Specification SpecPost: one post-processing subcommand over a backup    *)
(* directory, every subprocess free to succeed or to exit non-zero.        *)

MaxImages == 3

\* the name of the k-th oldest file: a full image, an incremental image,
\* or the target an unfinished run has left
ImageNames(k) ==
  { <<"FULL-", ToString(k)>>, <<"INC-", ToString(k)>>,
    <<"INC-", ToString(k), ".partial">> }

RECURSIVE ImageListsOfLen(_)
ImageListsOfLen(n) ==
  IF n = 0 THEN { <<>> }
  ELSE { Append(l, x) : l \in ImageListsOfLen(n - 1), x \in ImageNames(n) }

ImageLists == UNION { ImageListsOfLen(n) : n \in 0..MaxImages }

PostOps == {"QmpBackup.rebase", "rebase", "snapshot_rebase", "commit"}

\* the symlink image.rebase leaves in a directory it has rebased
Link == <<"image">>

\* a run of subprocesses in order: all succeed, or the f-th exits non-zero
\* and the ones after it never start
Runs(cmds) ==
  { [ran |-> cmds, ok |-> TRUE] }
  \cup { [ran |-> SubSeq(cmds, 1, f), ok |-> FALSE] : f \in 1..Len(cmds) }

\* lib.get_images: the mtime-sorted listing, or RuntimeError ("raise") for a
\* directory that holds no valid chain or lacks the --until image
get_images(images, until) ==
  IF until # PyNone /\ until \notin SeqToSet(images) THEN "raise"
  ELSE IF Len(images) = 0 THEN "raise"
  ELSE IF has_partial(images) THEN "raise"
  ELSE IF ~Contains(At(images, 0), "FULL-") THEN "raise"
  ELSE "ok"

\* a faulty variant: the check runs even with --skip-check
check_always(skip_check, image) == << <<"check", image>> >>

\* _check: the subprocess it runs, none with --skip-check
check_commands(skip_check, image) ==
  IF skip_check THEN <<>> ELSE << <<"check", image>> >>

\* a faulty variant: the commands run in a dry run as well
always_run(dry_run, cmds) == cmds

\* `if not argv.dry_run:` around the commands that change something
unless_dry_run(dry_run, cmds) == IF dry_run THEN <<>> ELSE cmds

\* the files an os.remove and an os.symlink among the commands leave
files_after(before, ran) ==
  (before \ { ran[k][2] : k \in { j \in 1..Len(ran) : ran[j][1] = "remove" } })
  \cup (IF \E k \in 1..Len(ran) : ran[k][1] = "symlink" THEN {Link} ELSE {})

PostInit ==
  /\ IdleCore
  /\ IdleConn
  /\ IdleAgent
  /\ IdleCreate
  /\ IdleDev
  /\ pop \in PostOps
  /\ pimages \in ImageLists
  /\ pargs \in [dry_run : BOOLEAN, skip_check : BOOLEAN,
                until : {PyNone, <<"INC-", "9">>} \cup SeqToSet(pimages)]
  /\ pfiles \in { SeqToSet(pimages) }
                \cup (IF pop = "rebase" THEN { SeqToSet(pimages) \cup {Link} }
                      ELSE {})
  /\ ppc = "head"
  /\ ppos = 0
  /\ pres = "none"
  /\ plog = <<>>

\* QmpBackup.rebase from its call to its loop
lib_rebase_start ==
  /\ pop = "QmpBackup.rebase"
  /\ ppc = "head"
  /\ LET h == lib_rebase_head(pimages, pargs.until)
     IN /\ ppc' = IF h = "loop" THEN "loop" ELSE "done"
        /\ pres' = IF h = "loop" THEN pres ELSE h
  /\ UNCHANGED <<coreVars, connVars, agentVars, createVars, devVars, pop, pargs,
                 pimages, pfiles, ppos, plog>>

\* QmpBackup.rebase: one pass of its loop; a subprocess that exits
\* non-zero ends it with False
lib_rebase_step ==
  /\ pop = "QmpBackup.rebase"
  /\ ppc = "loop"
  /\ ppos < Len(pimages)
  /\ LET pass == rebase_pass(pimages, pargs.until, ppos + 1)
         cmds == lib_rebase_commands(pimages, pargs.dry_run, pass.image,
                                     pass.idx)
     IN IF pass.does = "skip"
        THEN ppos' = ppos + 1 /\ UNCHANGED <<ppc, pres, plog>>
        ELSE IF pass.does = "break"
        THEN ppc' = "done" /\ pres' = "True" /\ UNCHANGED <<ppos, plog>>
        ELSE \E f \in 0..Len(cmds) :
               IF f = 0
               THEN /\ plog' = plog \o cmds
                    /\ ppos' = ppos + 1
                    /\ UNCHANGED <<ppc, pres>>
               ELSE /\ plog' = plog \o SubSeq(cmds, 1, f)
                    /\ ppc' = "done"
                    /\ pres' = "False"
                    /\ ppos' = ppos
  /\ UNCHANGED <<coreVars, connVars, agentVars, createVars, devVars, pop, pargs,
                 pimages, pfiles>>

\* image.rebase from its call to its loop
image_rebase_start ==
  /\ pop = "rebase"
  /\ ppc = "head"
  /\ IF Link \in pfiles
        \/ get_images(pimages, pargs.until) = "raise"
        \/ Contains(At(pimages, -1), "FULL-")
     THEN ppc' = "done" /\ pres' = "False" /\ plog' = plog
     ELSE \E r \in Runs(check_commands(pargs.skip_check, At(pimages, 0))) :
            /\ plog' = plog \o r.ran
            /\ ppc' = IF r.ok THEN "loop" ELSE "done"
            /\ pres' = IF r.ok THEN pres ELSE "False"
  /\ UNCHANGED <<coreVars, connVars, agentVars, createVars, devVars, pop, pargs,
                 pimages, pfiles, ppos>>

\* image.rebase: one pass of its loop and, on its break, the symlink
image_rebase_step ==
  /\ pop = "rebase"
  /\ ppc = "loop"
  /\ ppos < Len(pimages)
  /\ LET pass == rebase_pass(pimages, pargs.until, ppos + 1)
     IN IF pass.does = "skip"
        THEN ppos' = ppos + 1 /\ UNCHANGED <<ppc, pres, plog, pfiles>>
        ELSE IF pass.does = "break"
        THEN \E made \in BOOLEAN :
               LET ran == IF made
                          THEN unless_dry_run(pargs.dry_run, << <<"symlink">> >>)
                          ELSE <<>>
               IN /\ plog' = plog \o ran
                  /\ pfiles' = files_after(pfiles, ran)
                  /\ ppc' = "done"
                  /\ pres' = "True"
                  /\ ppos' = ppos
        ELSE \E r \in Runs(check_commands(pargs.skip_check, pass.image)
                           \o unless_dry_run(pargs.dry_run,
                                << <<"rebase", pass.image,
                                     At(pimages, pass.idx)>> >>)) :
               /\ plog' = plog \o r.ran
               /\ ppos' = IF r.ok THEN ppos + 1 ELSE ppos
               /\ ppc' = IF r.ok THEN ppc ELSE "done"
               /\ pres' = IF r.ok THEN pres ELSE "False"
               /\ pfiles' = pfiles
  /\ UNCHANGED <<coreVars, connVars, agentVars, createVars, devVars, pop, pargs,
                 pimages>>

\* snapshot_rebase from its call to its loop; listed tells whether the base
\* image already holds the snapshot FULL-BACKUP
snapshot_rebase_start ==
  /\ pop = "snapshot_rebase"
  /\ ppc = "head"
  /\ IF get_images(pimages, pargs.until) = "raise"
        \/ Contains(At(pimages, -1), "FULL-")
        \/ Len(pimages) = 1
     THEN ppc' = "done" /\ pres' = "False" /\ plog' = plog /\ ppos' = ppos
     ELSE \E r \in Runs(check_commands(pargs.skip_check, At(pimages, 0))) :
            IF ~r.ok
            THEN /\ plog' = plog \o r.ran
                 /\ ppc' = "done" /\ pres' = "False" /\ ppos' = ppos
            ELSE \E listed \in {"yes", "no", "failed"} :
                   LET list == << <<"snapshot-list", At(pimages, 0)>> >>
                   IN IF listed = "failed"
                      THEN /\ plog' = plog \o r.ran \o list
                           /\ ppc' = "done" /\ pres' = "raised"
                           /\ ppos' = ppos
                      ELSE \E c \in Runs(
                                IF listed = "yes" THEN <<>>
                                ELSE unless_dry_run(pargs.dry_run,
                                       << <<"snapshot-create", At(pimages, 0),
                                            <<"FULL-BACKUP">> >> >>)) :
                             /\ plog' = plog \o r.ran \o list \o c.ran
                             /\ ppc' = IF c.ok THEN "loop" ELSE "done"
                             /\ pres' = IF c.ok THEN pres ELSE "False"
                             /\ ppos' = IF c.ok THEN 1 ELSE ppos
  /\ UNCHANGED <<coreVars, connVars, agentVars, createVars, devVars, pop, pargs,
                 pimages, pfiles>>

\* snapshot_rebase: one pass of `for image in images[1:]`
snapshot_rebase_step ==
  /\ pop = "snapshot_rebase"
  /\ ppc = "loop"
  /\ ppos < Len(pimages)
  /\ LET image == At(pimages, ppos)
     IN \E r \in Runs(check_commands(pargs.skip_check, image)
                      \o unless_dry_run(pargs.dry_run,
                           << <<"rebase", image, At(pimages, 0)>>,
                              <<"commit", image>>,
                              <<"snapshot-create", At(pimages, 0), image>> >>)) :
          /\ plog' = plog \o r.ran
          /\ IF ~r.ok
             THEN ppc' = "done" /\ pres' = "False" /\ ppos' = ppos
             ELSE IF (pargs.until # PyNone /\ image = pargs.until)
                     \/ ppos + 1 = Len(pimages)
             THEN ppc' = "done" /\ pres' = "True" /\ ppos' = ppos
             ELSE ppos' = ppos + 1 /\ UNCHANGED <<ppc, pres>>
  /\ UNCHANGED <<coreVars, connVars, agentVars, createVars, devVars, pop, pargs,
                 pimages, pfiles>>

\* commit from its call to its loop
commit_start ==
  /\ pop = "commit"
  /\ ppc = "head"
  /\ IF get_images(pimages, pargs.until) = "raise"
        \/ Contains(At(pimages, -1), "FULL-")
        \/ Len(pimages) = 1
     THEN ppc' = "done" /\ pres' = "False" /\ plog' = plog /\ ppos' = ppos
     ELSE \E r \in Runs(check_commands(pargs.skip_check, At(pimages, 0))) :
            /\ plog' = plog \o r.ran
            /\ ppc' = IF r.ok THEN "loop" ELSE "done"
            /\ pres' = IF r.ok THEN pres ELSE "False"
            /\ ppos' = IF r.ok THEN 1 ELSE ppos
  /\ UNCHANGED <<coreVars, connVars, agentVars, createVars, devVars, pop, pargs,
                 pimages, pfiles>>

\* commit: one pass of `for image in images[1:]`
commit_step ==
  /\ pop = "commit"
  /\ ppc = "loop"
  /\ ppos < Len(pimages)
  /\ LET image == At(pimages, ppos)
     IN \E r \in Runs(check_commands(pargs.skip_check, image)
                      \o unless_dry_run(pargs.dry_run,
                           << <<"rebase", image, At(pimages, 0)>>,
                              <<"commit", image>> >>)) :
          IF ~r.ok
          THEN /\ plog' = plog \o r.ran
               /\ pfiles' = pfiles
               /\ ppc' = "done" /\ pres' = "False" /\ ppos' = ppos
          ELSE LET rm == unless_dry_run(pargs.dry_run,
                                        << <<"remove", image>> >>)
               IN /\ plog' = plog \o r.ran \o rm
                  /\ pfiles' = files_after(pfiles, rm)
                  /\ IF (pargs.until # PyNone /\ image = pargs.until)
                        \/ ppos + 1 = Len(pimages)
                     THEN ppc' = "done" /\ pres' = "True" /\ ppos' = ppos
                     ELSE ppos' = ppos + 1 /\ UNCHANGED <<ppc, pres>>
  /\ UNCHANGED <<coreVars, connVars, agentVars, createVars, devVars, pop, pargs,
                 pimages>>

\* the directory is processed once more after a dry run, this time for real
post_rerun ==
  /\ ppc = "done"
  /\ pargs.dry_run
  /\ pargs' = [pargs EXCEPT !.dry_run = FALSE]
  /\ pimages' = SelectSeq(pimages, LAMBDA x : x \in pfiles)
  /\ ppc' = "head"
  /\ ppos' = 0
  /\ pres' = "none"
  /\ plog' = <<>>
  /\ UNCHANGED <<coreVars, connVars, agentVars, createVars, devVars, pop, pfiles>>

PostNext ==
  \/ lib_rebase_start
  \/ lib_rebase_step
  \/ image_rebase_start
  \/ image_rebase_step
  \/ snapshot_rebase_start
  \/ snapshot_rebase_step
  \/ commit_start
  \/ commit_step
  \/ post_rerun

SpecPost == PostInit /\ [][PostNext]_vars

----------------------------------------------------------------------------
(* Claims about post-processing                                             *)

\* C15: QmpBackup.rebase over a directory with a file whose name contains
\* .partial returns False before it has run any check, rebase or commit
\* subprocess, and leaves the directory as it was.
C15_PartialRefusedBeforeAnyCommand ==
  (/\ pop = "QmpBackup.rebase"
   /\ \E k \in 1..Len(pimages) : Contains(pimages[k], ".partial")
   /\ ppc # "head")
  => /\ ppc = "done"
     /\ pres = "False"
     /\ plog = <<>>
     /\ pfiles = SeqToSet(pimages)

\* a real run over [FULL, INC.partial, INC] without --until has returned
C15_Witness ==
  /\ pop = "QmpBackup.rebase"
  /\ ppc = "done"
  /\ pres = "False"
  /\ ~pargs.dry_run
  /\ pargs.until = PyNone
  /\ Len(pimages) = 3
  /\ Contains(pimages[1], "FULL-")
  /\ Contains(pimages[2], ".partial")
  /\ ~Contains(pimages[3], ".partial")
  /\ ~Contains(pimages[3], "FULL-")

\* the subprocess commands that name an image of the chain
OnImage == {"check", "rebase", "commit"}

\* C16 as stated: with --until U, QmpBackup.rebase and image.rebase rebase
\* and commit only images older than U; U itself is skipped.
C16_UntilImageSkipped ==
  (/\ pop \in {"QmpBackup.rebase", "rebase"}
   /\ pargs.until \in SeqToSet(pimages))
  => \A k \in 1..Len(plog) :
       plog[k][1] \in {"rebase", "commit"}
       => IndexOf(pimages, plog[k][2]) < IndexOf(pimages, pargs.until)

\* C16, amended: with --until U, QmpBackup.rebase and image.rebase skip only
\* the images newer than U. No command touches an image newer than U, the
\* images are rebased newest first, each onto its predecessor, and a real run
\* that returns True has rebased U itself onto its predecessor (unless U is a
\* base image).
C16_UntilImageProcessed ==
  (/\ pop \in {"QmpBackup.rebase", "rebase"}
   /\ pargs.until \in SeqToSet(pimages))
  => /\ \A k \in 1..Len(plog) :
          plog[k][1] \in OnImage
          => IndexOf(pimages, plog[k][2]) <= IndexOf(pimages, pargs.until)
     /\ \A k \in 1..Len(plog) :
          plog[k][1] = "rebase"
          => /\ IndexOf(pimages, plog[k][2]) > 0
             /\ plog[k][3] = At(pimages, IndexOf(pimages, plog[k][2]) - 1)
     /\ \A k1 \in 1..Len(plog), k2 \in 1..Len(plog) :
          (k1 < k2 /\ plog[k1][1] = "rebase" /\ plog[k2][1] = "rebase")
          => IndexOf(pimages, plog[k1][2]) > IndexOf(pimages, plog[k2][2])
     /\ (/\ pres = "True"
         /\ ~pargs.dry_run
         /\ ~Contains(pargs.until, "FULL-"))
        => \E k \in 1..Len(plog) :
             plog[k] = <<"rebase", pargs.until,
                         At(pimages, IndexOf(pimages, pargs.until) - 1)>>

\* QmpBackup.rebase over [FULL, INC1, INC2] with --until INC2 has returned
\* True: INC2 was rebased onto INC1 and committed, then INC1 onto FULL
C16_Witness ==
  /\ pop = "QmpBackup.rebase"
  /\ pres = "True"
  /\ pimages = << <<"FULL-", "1">>, <<"INC-", "2">>, <<"INC-", "3">> >>
  /\ pargs.until = <<"INC-", "3">>
  /\ plog = << <<"check", <<"INC-", "3">> >>,
               <<"rebase", <<"INC-", "3">>, <<"INC-", "2">> >>,
               <<"commit", <<"INC-", "3">> >>,
               <<"check", <<"INC-", "2">> >>,
               <<"rebase", <<"INC-", "2">>, <<"FULL-", "1">> >>,
               <<"commit", <<"INC-", "2">> >> >>

\* C17: a dry run of any post-processing subcommand runs no command that
\* changes an image, the chain or the directory, so the directory after it is
\* the directory before it, and the real run that follows starts from the
\* very chain the dry run started from.
C17_DryRunChangesNothing ==
  /\ [](pargs.dry_run
        => /\ \A k \in 1..Len(plog) : plog[k][1] \notin Modifying
           /\ pfiles \ {Link} = SeqToSet(pimages)
           /\ Link \in pfiles => plog = <<>>)
  /\ [][(ppc = "done" /\ ppc' = "head")
        => (pimages' = pimages /\ pfiles' = pfiles)]_vars

\* a dry run of commit over a chain of three images has returned True after
\* its three checks
C17_Witness ==
  /\ pop = "commit"
  /\ pargs.dry_run
  /\ ~pargs.skip_check
  /\ ppc = "done"
  /\ pres = "True"
  /\ Len(pimages) = 3
  /\ Len(plog) = 3

\* C18: unless --skip-check is given, no check follows a command that
\* changes the chain: every image has been checked before the first image is
\* rebased, committed or removed.
C18_AllChecksBeforeAnyChange ==
  ~pargs.skip_check
  => \A k1 \in 1..Len(plog), k2 \in 1..Len(plog) :
       (k1 < k2 /\ plog[k1][1] \in Modifying) => plog[k2][1] # "check"

----------------------------------------------------------------------------
(* Specification SpecBackupLive: SpecBackup with backup() never stopping   *)
(* between two of its steps. backup() is a single coroutine that awaits    *)
(* each monitor command and sleeps a bounded time in each iteration, so a  *)
(* step of it that can be taken is taken. Nothing is assumed of the        *)
(* hypervisor's jobs or of the signal.                                     *)

BackupSteps ==
  \/ backup_start
  \/ backup_transaction_returns
  \/ backup_thaw
  \/ backup_check
  \/ backup_query
  \/ backup_job
  \/ backup_sleep

SpecBackupLive == BackupInit /\ [][BackupNext]_vars /\ WF_vars(BackupSteps)

\* what backup() raises when a monitor command of its own has failed
MonitorFailures ==
  { <<"transaction">>, <<"query-block-jobs">>, <<"block-job-dismiss">> }

\* every job the transaction started is concluded with offset = len, or
\* was dismissed in that state
OwnJobsConcluded ==
  /\ txState = "applied"
  /\ \A id \in JobIdsOf(actions) :
       \/ id \in dismissedOk
       \/ \E k \in 1..Len(hvJobs) :
            /\ hvJobs[k].device = id
            /\ hvJobs[k].status = "concluded"
            /\ hvJobs[k].offset = hvJobs[k].len

\* the jobs of the transaction that the hypervisor lists
OwnJobsListed ==
  { id \in JobIdsOf(actions) : \E k \in 1..Len(hvJobs) : hvJobs[k].device = id }

\* C19: if the stop flag is never set, no monitor command fails and every
\* job of the transaction concludes with offset = len, backup() returns
\* success; a job of the transaction leaves the job list only by the
\* poller's dismiss, each dismissed job is counted once, and at the return
\* every job of the transaction has been counted.
C19_BackupEventuallyReturns ==
  /\ ([](~stop_backup) /\ [](raised \notin MonitorFailures)
        /\ <>OwnJobsConcluded)
       => <>(bpc = "returned")
  /\ [][OwnJobsListed \ OwnJobsListed' \subseteq dismissedOk']_vars
  /\ [](finished = Cardinality(dismissedOk))
  /\ [](bpc = "returned" => JobIdsOf(actions) \subseteq dismissedOk)

\* the hypervisor has held no qualifying job but those of the transaction
NoForeignJob ==
  dismissedOk \cup { hvJobs[k].device :
                       k \in { i \in 1..Len(hvJobs) : Qualifies(hvJobs[i]) } }
    \subseteq JobIdsOf(prepare_transaction(argv, devices, uuid))

\* C19 where the hypervisor holds no backup job of an earlier run and the
\* guest agent answers the thaw: backup() returns success, and at the
\* return every job of the transaction has been counted.
C19_ReturnsWithOwnJobsOnly ==
  /\ ([]NoForeignJob /\ [](raised # <<"agent">>)
        /\ [](~stop_backup) /\ [](raised \notin MonitorFailures)
        /\ <>OwnJobsConcluded)
       => <>(bpc = "returned")
  /\ [](NoForeignJob
        => (bpc = "returned" => JobIdsOf(actions) \subseteq dismissedOk))

----------------------------------------------------------------------------
(* Claims about the commands of cancel_jobs()                              *)

\* C20: for each job of the list a round of cancel_jobs works through, it
\* sends block-job-dismiss with the job's id iff the job is of type
\* backup, its device starts with qmpbackup and its status is concluded;
\* it sends block-job-cancel with force = true iff the job is of type
\* backup, its device starts with qmpbackup and its status is not
\* concluded; for a job of another type or another prefix it sends nothing.
C20_CommandsOnlyForQualifyingJobs ==
  [][(cpc = "jobs" /\ jobs # <<>> /\ (jobs' = Tail(jobs) \/ cpc' = "raised"))
     => LET job == Head(jobs)
            qualifies == job.type = "backup"
                           /\ StartsWith(job.device, <<"qmpbackup">>)
            dismiss == [execute |-> "block-job-dismiss",
                        arguments |-> [id |-> job.device]]
            cancel == [execute |-> "block-job-cancel",
                       arguments |-> [device |-> job.device, force |-> TRUE]]
        IN /\ (events' = <<dismiss>>)
                <=> (qualifies /\ job.status = "concluded")
           /\ (events' = <<cancel>>)
                <=> (qualifies /\ job.status # "concluded")
           /\ (events' = <<>>) <=> ~qualifies
           /\ Len(events') <= 1]_vars

\* a round has skipped a backup job with another prefix and then cancelled
\* a running job of its own kind, which is still listed
C20_Witness ==
  /\ cpc = "jobs"
  /\ jobs = <<>>
  /\ Len(hvJobs) = 2
  /\ hvJobs[1].type = "backup"
  /\ hvJobs[1].device = <<"drive", "-", "backup">>
  /\ hvJobs[2].status \in {"running", "aborting"}
  /\ events = << [execute |-> "block-job-cancel",
                  arguments |-> [device |-> hvJobs[2].device,
                                 force |-> TRUE]] >>

----------------------------------------------------------------------------
(* Claims about the rounds of cancel_jobs()                                *)

\* C21: cancel_jobs runs at most 60 rounds, and a round whose
\* query-block-jobs lists no qualifying job is its last one: it returns
\* there, whatever jobs of other types or prefixes are listed.
C21_ReturnsWhenNoQualifyingJobLeft ==
  /\ [](retry <= limit)
  /\ [][(cpc = "query" /\ cpc' = "jobs")
        => \E k \in 1..Len(jobs') : Qualifies(jobs'[k])]_vars

\* cancel_jobs() never stops between two of its steps: it is one coroutine
\* that awaits each monitor command and sleeps one second per round
CancelSteps ==
  \/ cancel_jobs_query
  \/ cancel_jobs_job
  \/ cancel_jobs_sleep

SpecCancelLive == CancelInit /\ [][CancelNext]_vars /\ WF_vars(CancelSteps)

\* C21, the part that holds: cancel_jobs ends, by a return or by the error
\* of a monitor command, after at most 60 rounds, whatever the jobs do.
C21_CancelJobsEnds ==
  /\ [](retry <= limit)
  /\ <>(cpc \in {"returned", "raised"})

\* the job of a listing is no longer what the listing says: it was listed
\* as not concluded and has concluded since, or it is listed no more
ConcludedOrGoneSince(job) ==
  /\ job.status # "concluded"
  /\ \A k \in 1..Len(hvJobs) :
       hvJobs[k].device = job.device => hvJobs[k].status = "concluded"

\* C22: when the job cancel_jobs is about to send a command for has
\* concluded or disappeared since the query, cancel_jobs does not end with
\* an error: it goes on with the next job of the round.
C22_StaleListingNeverAborts ==
  [][(/\ cpc = "jobs"
      /\ jobs # <<>>
      /\ Qualifies(Head(jobs))
      /\ ConcludedOrGoneSince(Head(jobs))
      /\ (jobs' # jobs \/ cpc' # cpc))
     => cpc' # "raised"]_vars

----------------------------------------------------------------------------
(* Claims about the actions of the transaction, device by device           *)

\* the place of the i-th blockdev-backup action of the transaction
BackupAt(i) ==
  CHOOSE k \in 1..Len(actions) :
    /\ actions[k].type = "blockdev-backup"
    /\ Cardinality({ j \in 1..k : actions[j].type = "blockdev-backup" }) = i

\* the actions between the (i-1)-th blockdev-backup and the i-th
BeforeBackup(i) ==
  SubSeq(actions, IF i = 1 THEN 1 ELSE BackupAt(i - 1) + 1, BackupAt(i) - 1)

\* qmpbackup-{device}-{uuid}
ChainBitmap(d) == <<"qmpbackup", "-">> \o d.device \o <<"-">> \o Fmt(uuid)

\* qmpbackup-copy-{device}-{uuid}
CopyBitmap(d) ==
  <<"qmpbackup", "-", "copy", "-">> \o d.device \o <<"-">> \o Fmt(uuid)

\* child node if present, else the device node
SourceNode(d) == IF d.child_device # PyNone THEN d.child_device ELSE d.node

\* C23: at the levels full and copy the actions of a device before its
\* blockdev-backup are exactly: a block-dirty-bitmap-add on the source node
\* iff (no bitmap and format # raw) or (copy and has bitmap), persistent iff
\* full without no_persist, named qmpbackup-copy-{device}-{uuid} for copy;
\* then a block-dirty-bitmap-clear of qmpbackup-{device}-{uuid} iff full,
\* has bitmap and format # raw.
C23_BitmapActionsOfFullAndCopy ==
  (txState # "none" /\ argv.level \in {"full", "copy"})
  => \A i \in 1..Len(devices) :
       LET d == devices[i]
           add == [type |-> "block-dirty-bitmap-add",
                   data |-> ("node" :> SourceNode(d))
                     @@ ("name" :> IF argv.level = "copy" THEN CopyBitmap(d)
                                   ELSE ChainBitmap(d))
                     @@ ("persistent" :>
                           (argv.level = "full" /\ ~argv.no_persist))]
           clear == [type |-> "block-dirty-bitmap-clear",
                     data |-> ("node" :> SourceNode(d))
                       @@ ("name" :> ChainBitmap(d))]
       IN BeforeBackup(i) =
            (IF (~d.has_bitmap /\ d.format # "raw")
                  \/ (argv.level = "copy" /\ d.has_bitmap)
             THEN <<add>> ELSE <<>>)
            \o (IF argv.level = "full" /\ d.has_bitmap /\ d.format # "raw"
                THEN <<clear>> ELSE <<>>)

\* a copy backup of one disk that holds the chain bitmap and one qcow2 disk
\* that holds none
C23_Witness ==
  /\ txState = "applied"
  /\ argv.level = "copy"
  /\ ~argv.no_persist
  /\ Len(devices) = 2
  /\ devices[1].has_bitmap
  /\ ~devices[2].has_bitmap
  /\ devices[2].format = "qcow2"
  /\ Len(actions) = 4

\* C24: for a device at level full or copy, or at level inc with format
\* raw, the blockdev-backup action has sync = full, auto-dismiss = false,
\* no bitmap argument, speed = speed_limit and compress = (compress flag
\* and format # raw).
C24_FullSyncBackupAction ==
  txState # "none"
  => \A i \in 1..Len(devices) :
       (argv.level \in {"full", "copy"}
          \/ (argv.level = "inc" /\ devices[i].format = "raw"))
       => LET a == actions[BackupAt(i)].data
          IN /\ a["sync"] = "full"
             /\ a["auto-dismiss"] = FALSE
             /\ "bitmap" \notin DOMAIN a
             /\ a["speed"] = argv.speed_limit
             /\ a["compress"] = (argv.compress /\ devices[i].format # "raw")

\* qmpbackup-{node_safe}-snap, the snapshot-access node of a device
SnapshotNode(d) == <<"qmpbackup", "-">> \o d.node_safe \o <<"-", "snap">>

\* C25: for a device at level inc or diff with format # raw the
\* transaction holds, in this order: with fleecing a block-dirty-bitmap-add
\* of the chain bitmap on the snapshot-access node and a
\* block-dirty-bitmap-merge of the source node's chain bitmap into it; a
\* blockdev-backup with sync = incremental and bitmap = the chain bitmap;
\* a block-dirty-bitmap-clear of the chain bitmap on the source node.
C25_IncrementalActionsInOrder ==
  (txState # "none" /\ argv.level \in {"inc", "diff"})
  => \A i \in 1..Len(devices) :
       devices[i].format # "raw"
       => LET d == devices[i]
              b == BackupAt(i)
              add == [type |-> "block-dirty-bitmap-add",
                      data |-> ("node" :> SnapshotNode(d))
                                 @@ ("name" :> ChainBitmap(d))]
              merge == [type |-> "block-dirty-bitmap-merge",
                        data |-> ("node" :> SnapshotNode(d))
                          @@ ("target" :> ChainBitmap(d))
                          @@ ("bitmaps" :> << [name |-> ChainBitmap(d),
                                               node |-> SourceNode(d)] >>)]
              clear == [type |-> "block-dirty-bitmap-clear",
                        data |-> ("node" :> SourceNode(d))
                                   @@ ("name" :> ChainBitmap(d))]
          IN /\ IF argv.no_fleece
                THEN i = 1 => b = 1
                ELSE /\ b >= 3
                     /\ i = 1 => b = 3
                     /\ actions[b - 2] = add
                     /\ actions[b - 1] = merge
             /\ actions[b].data["sync"] = "incremental"
             /\ "bitmap" \in DOMAIN actions[b].data
             /\ actions[b].data["bitmap"] = ChainBitmap(d)
             /\ b + 1 <= Len(actions)
             /\ actions[b + 1] = clear

\* a block-dirty-bitmap-clear of a device's chain bitmap on its source node
IsChainClear(a) ==
  /\ a.type = "block-dirty-bitmap-clear"
  /\ \E i \in 1..Len(devices) :
       /\ a.data["node"] = SourceNode(devices[i])
       /\ a.data["name"] = ChainBitmap(devices[i])

\* C26: at level diff the transaction holds no block-dirty-bitmap-clear of
\* a device's chain bitmap on the source node, and it is the transaction
\* of level inc for the same devices with those clears left out; at level
\* inc every qcow2 device has one such clear, right after its
\* blockdev-backup.
C26_DiffIsIncWithoutClear ==
  /\ (txState # "none" /\ argv.level = "diff")
     => /\ \A k \in 1..Len(actions) : ~IsChainClear(actions[k])
        /\ actions =
             SelectSeq(prepare_transaction([argv EXCEPT !.level = "inc"],
                                           devices, uuid),
                       LAMBDA a : ~IsChainClear(a))
  /\ (txState # "none" /\ argv.level = "inc")
     => \A i \in 1..Len(devices) :
          devices[i].format # "raw"
          => /\ BackupAt(i) + 1 <= Len(actions)
             /\ IsChainClear(actions[BackupAt(i) + 1])

\* the names in the bitmap list get_block_devices read for a device
BitmapNamesOf(d) == { d.bitmaps[k].name : k \in 1..Len(d.bitmaps) }

\* the bitmaps on the source node of device d that the run takes as
\* existing: the bitmap an action clears, merges from or copies by, and
\* the bitmap add_cbw_device binds to the filter
ReferencedBitmaps(d) ==
  { actions[k].data["name"] :
      k \in { j \in 1..Len(actions) :
                /\ actions[j].type = "block-dirty-bitmap-clear"
                /\ actions[j].data["node"] = SourceNode(d) } }
  \cup { actions[k].data["bitmaps"][1].name :
           k \in { j \in 1..Len(actions) :
                     /\ actions[j].type = "block-dirty-bitmap-merge"
                     /\ actions[j].data["bitmaps"][1].node = SourceNode(d) } }
  \cup { actions[k].data["bitmap"] :
           k \in { j \in 1..Len(actions) :
                     /\ actions[j].type = "blockdev-backup"
                     /\ "bitmap" \in DOMAIN actions[j].data
                     /\ actions[j].data["device"] = d.node } }
  \cup (LET cbw == add_cbw_device_cmd(argv, d, uuid).arguments
        IN IF "bitmap" \in DOMAIN cbw THEN { cbw["bitmap"].name } ELSE {})

\* C27: every bitmap the transaction or the copy-before-write filter takes
\* as existing on the source node of a device is in the device's bitmap
\* list under that name, and is qmpbackup-{device}-{uuid}; a device with
\* has_bitmap holds that bitmap, and for a device without has_bitmap
\* nothing is referenced.
C27_ReferencedBitmapExists ==
  txState # "none"
  => \A i \in 1..Len(devices) :
       LET d == devices[i]
       IN /\ ReferencedBitmaps(d) \subseteq {ChainBitmap(d)}
          /\ ReferencedBitmaps(d) \subseteq BitmapNamesOf(d)
          /\ d.has_bitmap => ChainBitmap(d) \in BitmapNamesOf(d)
          /\ ~d.has_bitmap => ReferencedBitmaps(d) = {}

----------------------------------------------------------------------------
(* Claims about the monitor connection                                      *)

\* C28: when _execute has returned or raised, and while it connects, no
\* monitor connection is open, and a command that fails reaches the
\* caller as RuntimeError.
C28_ExecuteClosesAndRaisesRuntimeError ==
  /\ kpc \in {"connect", "done", "raised", "raised_by_disconnect"}
       => ~connected
  /\ kpc # "raised_by_disconnect"

\* C29: the commands of the polling loop share one connection: when a
\* command has returned and the next one is due, the connection is open.
C29_ConnectionKeptBetweenCommands ==
  [][(kpc = "execute" /\ kpc' = "connect") => connected']_vars

----------------------------------------------------------------------------
(* vm.py: get_block_devices, the devices of a query-block reply it keeps   *)

\* The arguments of one call, in a record: blockinfo, named (the reply to
\* query-named-block-nodes), args (argv), excluded, included (lists of
\* names; None and the empty list are both written <<>>, the code tests
\* their truth value only) and id (the uuid).

\* child = device["inserted"]["children"][0]["node-name"], None when the
\* entry has no children (KeyError) or the name starts with "#block"
entry_child(entry) ==
  IF "children" \in DOMAIN entry.inserted
  THEN LET child == entry.inserted.children[1]["node-name"]
       IN IF StartsWith(child, <<"#", "block">>) THEN PyNone ELSE child
  ELSE PyNone

\* the bitmap list selected for an entry: with a child, the dirty-bitmaps
\* of the last named node of that name that has them; without, those of
\* "inserted", replaced by those of the entry itself when it has them
entry_bitmaps(entry, named) ==
  IF entry_child(entry) # PyNone
  THEN LET found == SelectSeq(named,
                      LAMBDA n : /\ n["node-name"] = entry_child(entry)
                                 /\ "dirty-bitmaps" \in DOMAIN n)
       IN IF Len(found) = 0 THEN <<>>
          ELSE found[Len(found)]["dirty-bitmaps"]
  ELSE IF "dirty-bitmaps" \in DOMAIN entry
       THEN entry["dirty-bitmaps"]
       ELSE IF "dirty-bitmaps" \in DOMAIN entry.inserted
            THEN entry.inserted["dirty-bitmaps"]
            ELSE <<>>

\* filename and format: those of the backing image when the image reports
\* one, else those of the image
entry_image(entry) ==
  IF "backing-image" \in DOMAIN entry.inserted.image
  THEN entry.inserted.image["backing-image"]
  ELSE entry.inserted.image

\* `backing_image is True`: backing_image is False or the backing-image
\* dict of the reply, and neither is the object True
backing_image_is_True(entry) == FALSE

\* device["device"] after the fallback to the node name
entry_device(entry) ==
  IF entry.device = <<>> THEN entry.inserted["node-name"] ELSE entry.device

\* the raw filter
raw_excluded(entry, args) ==
  /\ entry.inserted.drv = "raw"
  /\ ~args.include_raw
  /\ ~StartsWith(entry.device, <<"pflash">>)

\* the list of included disks is given and names neither the device nor
\* its node
not_included(entry, included) ==
  /\ Len(included) > 0
  /\ ~ ( \/ entry_device(entry) \in SeqToSet(included)
         \/ entry.inserted["node-name"] \in SeqToSet(included) )

\* an exclusion that looks at the device name only
is_excluded_by_device(entry, excluded) ==
  Len(excluded) > 0 /\ entry_device(entry) \in SeqToSet(excluded)

\* the list of excluded disks is given and names the device or its node
is_excluded(entry, excluded) ==
  /\ Len(excluded) > 0
  /\ \/ entry_device(entry) \in SeqToSet(excluded)
     \/ entry.inserted["node-name"] \in SeqToSet(excluded)

\* the `continue` statements of the loop body before the qdev lookup
device_skipped(entry, c) ==
  \/ "inserted" \notin DOMAIN entry
  \/ raw_excluded(entry, c.args)
  \/ not_included(entry, c.included)
  \/ is_excluded(entry, c.excluded)

\* the local qdev before its first assignment
Unbound == <<>>

\* the loop over the reply from entry i on; st holds the list built so
\* far, the local qdev (it keeps its value from one pass to the next) and
\* whether a pass raised (a read of qdev before any assignment)
RECURSIVE block_devices_loop(_, _, _)
block_devices_loop(c, i, st) ==
  IF i > Len(c.blockinfo) \/ st.raised THEN st
  ELSE LET entry == c.blockinfo[i]
       IN IF device_skipped(entry, c)
          THEN block_devices_loop(c, i + 1, st)
          ELSE IF "qdev" \notin DOMAIN entry /\ ~backing_image_is_True(entry)
          THEN block_devices_loop(c, i + 1, st)
          ELSE LET qdev == IF "qdev" \in DOMAIN entry THEN entry.qdev
                           ELSE st.qdev
               IN IF qdev = Unbound THEN [st EXCEPT !.raised = TRUE]
                  ELSE block_devices_loop(c, i + 1,
                         [blockdevs |->
                            Append(st.blockdevs,
                              BlockDev(entry_device(entry),
                                       entry_image(entry).format,
                                       entry_image(entry).filename,
                                       entry_bitmaps(entry, c.named),
                                       entry.inserted["node-name"], qdev,
                                       entry_child(entry), c.id)),
                          qdev |-> qdev, raised |-> FALSE])

\* the list the loop builds: one BlockDev per entry that is not skipped
blockdevs(c) ==
  block_devices_loop(c, 1, [blockdevs |-> <<>>, qdev |-> Unbound,
                            raised |-> FALSE])

get_block_devices(c) ==
  IF Len(blockdevs(c).blockdevs) = 0 THEN PyNone ELSE blockdevs(c).blockdevs

\* devices = get_block_devices(blockinfo, named_block_info, argv,
\*                             excluded_disks, included_disks, uuid)
get_block_devices_call ==
  LET c == [blockinfo |-> blockinfo, named |-> named_block_info,
            args |-> argv, excluded |-> excluded_disks,
            included |-> included_disks, id |-> uuid]
  IN /\ dpc = "call"
     /\ devices' = IF blockdevs(c).raised THEN devices
                   ELSE get_block_devices(c)
     /\ dpc' = IF blockdevs(c).raised THEN "raised"
               ELSE IF Len(blockdevs(c).blockdevs) = 0 THEN "none"
               ELSE "list"
     \* the fallback to the node name is written into the entry itself
     /\ blockinfo' = IF blockdevs(c).raised THEN blockinfo
                     ELSE [i \in DOMAIN blockinfo |->
                             IF /\ "inserted" \in DOMAIN blockinfo[i]
                                /\ ~raw_excluded(blockinfo[i], argv)
                             THEN [blockinfo[i] EXCEPT
                                     !.device = entry_device(blockinfo[i])]
                             ELSE blockinfo[i]]
     /\ UNCHANGED <<argv, uuid, named_block_info, excluded_disks,
                    included_disks, rpc, rdev, rbit, removed, txVars, nodeVars, jobVars, cancelVars,
                    connVars, agentVars, createVars, postVars>>

DevNext == get_block_devices_call

\* everything but the call of get_block_devices at rest
DevIdleRest ==
  /\ devices = <<>>
  /\ dpc = "call"
  /\ rpc = "idle" /\ rdev = 0 /\ rbit = 0 /\ removed = <<>>
  /\ IdleTx
  /\ hvBitmaps = {}
  /\ IdleNodes
  /\ IdleJobs
  /\ IdleCancel
  /\ IdleConn
  /\ IdleAgent
  /\ IdleCreate
  /\ IdlePost

\* replies of at most n entries with distinct names out of names, the
\* entries of a name drawn from entries[name]
RECURSIVE BlockInfoLists(_, _, _)
BlockInfoLists(names, entries, n) ==
  IF n = 0 THEN { <<>> }
  ELSE { <<>> }
       \cup UNION { { <<e>> \o rest :
                        e \in entries[name],
                        rest \in BlockInfoLists(names \ {name}, entries,
                                                n - 1) }
                    : name \in names }

MaxBlockInfo == 2

NodeOf(name) == <<"#", "block">> \o name
QdevOf(name) == <<"/", "machine", "/">> \o name
ChainBitmapOf(name) == <<"qmpbackup", "-">> \o name \o <<"-", "U1">>

----------------------------------------------------------------------------
(* Specification SpecDevices: get_block_devices on replies that differ in  *)
(* insertion, driver, qdev and backing image                               *)

\* The entries have no children and no json: filename, their names are
\* non-empty, the image format is the driver's, bitmaps are listed under
\* "inserted" only, and no list of included or excluded disks is given.
BlockInfoNames == { <<"hd", "1">>, <<"hd", "pflash">>, <<"pflash", "0">> }

ImageOf(name, drv) ==
  [filename |-> <<"/", "vm", "/">> \o name, format |-> drv]

InsertedOf(name, drv) ==
  [drv |-> drv, image |-> ImageOf(name, drv)]
  @@ ("node-name" :> NodeOf(name))

\* the same with an image that is an active snapshot of a base image
InsertedOnBacking(name, drv) ==
  [drv |-> drv,
   image |-> ImageOf(name, drv)
             @@ ("backing-image" :>
                   [filename |-> <<"/", "vm", "/", "base", "-">> \o name,
                    format |-> "qcow2"])]
  @@ ("node-name" :> NodeOf(name))

InsertedVariants(name) ==
  UNION { { InsertedOf(name, drv),
            InsertedOnBacking(name, drv),
            InsertedOf(name, drv)
              @@ ("dirty-bitmaps" :> << [name |-> ChainBitmapOf(name)] >>) }
          : drv \in {"raw", "qcow2"} }

BlockInfoEntries(name) ==
  LET bare == { [device |-> name] }
                 \cup { [device |-> name, inserted |-> ins] :
                          ins \in InsertedVariants(name) }
  IN bare \cup { e @@ ("qdev" :> QdevOf(name)) : e \in bare }

DevInit ==
  /\ argv \in [include_raw : BOOLEAN]
  /\ uuid = <<"U1">>
  /\ blockinfo \in BlockInfoLists(BlockInfoNames,
                     [n \in BlockInfoNames |-> BlockInfoEntries(n)],
                     MaxBlockInfo)
  /\ named_block_info = <<>>
  /\ excluded_disks = <<>>
  /\ included_disks = <<>>
  /\ DevIdleRest

SpecDevices == DevInit /\ [][DevNext]_vars

----------------------------------------------------------------------------
(* Specification SpecBitmaps: get_block_devices on replies that differ in  *)
(* where the bitmaps of a device are listed                                *)

\* The entries are inserted qcow2 images with a qdev and a non-empty name;
\* none is a backing image or has a json: filename, a children list has
\* one element, and no list of included or excluded disks is given.
BitmapInfoNames == { <<"hd", "1">>, <<"hd", "2">> }

ChildOf(name) == <<"child", "-">> \o name

\* a bitmap as the reply lists it without a name
Nameless == [granularity |-> "64k"]

ChainList(name) == << [name |-> ChainBitmapOf(name)] >>
OtherList == << [name |-> <<"other">>] >>

BitmapLists(name) ==
  { ChainList(name), OtherList, << Nameless >>,
    << Nameless, [name |-> ChainBitmapOf(name)] >> }

WithBitmaps(r, lists) == {r} \cup { r @@ ("dirty-bitmaps" :> l) : l \in lists }

BitmapInfoEntries(name) ==
  LET ins == InsertedOf(name, "qcow2")
      top == [device |-> name, qdev |-> QdevOf(name)]
      blk == ins @@ [children |-> << ("node-name" :> NodeOf(ChildOf(name))) >>]
      chd == ins @@ [children |-> << ("node-name" :> ChildOf(name)) >>]
  IN UNION { WithBitmaps(top @@ [inserted |-> i],
                         { ChainList(name), OtherList })
             : i \in WithBitmaps(ins, BitmapLists(name)) }
     \cup { top @@ [inserted |-> i]
            : i \in WithBitmaps(blk, { ChainList(name), << Nameless >> }) }
     \cup { top @@ [inserted |-> i]
            : i \in WithBitmaps(chd, { OtherList }) }

\* what the reply to query-named-block-nodes says of the child of a name:
\* nothing, a node without bitmaps, or a node with a bitmap list
NamedOf(name) ==
  { <<>>, << ("node-name" :> ChildOf(name)) >> }
  \cup { << ("node-name" :> ChildOf(name)) @@ ("dirty-bitmaps" :> l) >>
         : l \in { ChainList(name), << Nameless >> } }

NamedBlockInfos ==
  { a \o b : a \in NamedOf(<<"hd", "1">>), b \in NamedOf(<<"hd", "2">>) }

BitmapsInit ==
  /\ argv = [include_raw |-> FALSE]
  /\ uuid \in Uuids
  /\ blockinfo \in BlockInfoLists(BitmapInfoNames,
                     [n \in BitmapInfoNames |-> BitmapInfoEntries(n)],
                     MaxBlockInfo)
  /\ named_block_info \in NamedBlockInfos
  /\ excluded_disks = <<>>
  /\ included_disks = <<>>
  /\ DevIdleRest

SpecBitmaps == BitmapsInit /\ [][DevNext]_vars

----------------------------------------------------------------------------
(* Specification SpecFilter: get_block_devices with lists of included and  *)
(* excluded disks                                                          *)

\* The entries are inserted qcow2 images with a qdev, without children,
\* bitmaps, backing image or json: filename; an entry may have an empty
\* device name.
MaxFilterInfo == 3

FilterInfoNames == { <<"hd", "1">>, <<"hd", "2">>, <<"hd", "3">> }

FilterInfoEntries(name) ==
  { [device |-> d, qdev |-> QdevOf(name),
     inserted |-> InsertedOf(name, "qcow2")] : d \in { name, <<>> } }

\* the lists of names a caller gives: device names and node names
FilterLists ==
  { <<>>, << <<"hd", "1">> >>, << NodeOf(<<"hd", "1">>) >>,
    << NodeOf(<<"hd", "2">>) >>, << <<"hd", "3">> >>,
    << <<"hd", "1">>, NodeOf(<<"hd", "2">>) >>,
    << <<"hd", "1">>, NodeOf(<<"hd", "2">>), <<"hd", "3">> >> }

FilterInit ==
  /\ argv = [include_raw |-> FALSE]
  /\ uuid = <<"U1">>
  /\ blockinfo \in BlockInfoLists(FilterInfoNames,
                     [n \in FilterInfoNames |-> FilterInfoEntries(n)],
                     MaxFilterInfo)
  /\ named_block_info = <<>>
  /\ excluded_disks \in FilterLists
  /\ included_disks \in FilterLists
  /\ DevIdleRest

SpecFilter == FilterInit /\ [][DevNext]_vars

----------------------------------------------------------------------------
(* qmpcommon.py: remove_bitmaps                                            *)

\* the default of the parameter prefix
RemovePrefix == <<"qmpbackup">>

\* the parameter uuid of remove_bitmaps: "" when the run has no uuid
remove_uuid(id) == IF id = PyNone THEN <<>> ELSE id

\* Python's `p in s` for strings: p occurs somewhere in s
InString(p, s) ==
  \E k \in 1..(Len(s) - Len(p) + 1) : SubSeq(s, k, k + Len(p) - 1) = p

\* `prefix not in bitmap_name`
prefix_missing(prefix, name) == ~InString(prefix, name)

\* the two `continue` tests of the inner loop
bitmap_ignored(name, prefix, id) ==
  \/ prefix_missing(prefix, name)
  \/ (id # <<>> /\ ~EndsWith(name, id))

\* the bitmap lists of disk i: the bitmap of the chain, one of another
\* chain, one of another tool, one whose name holds the prefix further
\* in, and a bitmap without name
RemoveBitmapLists(i) ==
  LET chain(u) == [name |-> <<"qmpbackup", "-">> \o DiskDevice(i)
                              \o <<"-">> \o u]
      inner == [name |-> <<"my", "-", "qmpbackup", "-">> \o DiskDevice(i)
                           \o <<"-", "U1">>]
      other == [name |-> <<"other", "-", "U1">>]
  IN { <<>>, << chain(<<"U1">>) >>, << other, chain(<<"U1">>) >>,
       << chain(<<"U2">>), chain(<<"U1">>) >>, << inner >>,
       << chain(<<"U1">>), inner >>, << [granularity |-> "64k"] >> }

RECURSIVE RemoveDeviceListsFrom(_, _)
RemoveDeviceListsFrom(i, u) ==
  IF i > MaxDevs THEN { <<>> }
  ELSE LET rest == RemoveDeviceListsFrom(i + 1, u)
       IN rest \cup { << BlockDev(DiskDevice(i), "qcow2", DiskFilename(i), b,
                                  DiskNode(i), DiskQdev(i), DiskChild(i), u) >>
                      \o r : b \in RemoveBitmapLists(i), r \in rest }

\* the named bitmaps of the devices, as the hypervisor holds them
NamedBitmapsOf(devs) ==
  UNION { { [node |-> get_node(devs[i]), name |-> devs[i].bitmaps[j].name] :
              j \in { n \in 1..Len(devs[i].bitmaps) :
                        "name" \in DOMAIN devs[i].bitmaps[n] } }
          : i \in 1..Len(devs) }

RemoveInit ==
  /\ argv \in {a \in ArgvSet : a.level = "full" /\ ~a.no_persist
                                /\ ~a.no_fleece /\ ~a.compress}
  /\ uuid \in Uuids
  /\ devices \in RemoveDeviceListsFrom(1, uuid) \ { <<>> }
  /\ hvBitmaps = NamedBitmapsOf(devices)
  /\ rpc = "dev" /\ rdev = 1 /\ rbit = 0 /\ removed = <<>>
  /\ blockinfo = <<>> /\ named_block_info = <<>> /\ excluded_disks = <<>>
  /\ included_disks = <<>> /\ dpc = "idle"
  /\ IdleTx
  /\ IdleNodes
  /\ IdleJobs
  /\ IdleCancel
  /\ IdleConn
  /\ IdleAgent
  /\ IdleCreate
  /\ IdlePost

\* one pass of `for dev in blockdev` up to the inner loop: the end of the
\* list, a device without has_bitmap (continue), or the node is chosen
remove_bitmaps_dev ==
  /\ rpc = "dev"
  /\ IF rdev > Len(devices)
     THEN rpc' = "done" /\ UNCHANGED <<rdev, rbit>>
     ELSE IF ~devices[rdev].has_bitmap
          THEN rdev' = rdev + 1 /\ UNCHANGED <<rpc, rbit>>
          ELSE rpc' = "bitmap" /\ rbit' = 1 /\ UNCHANGED rdev
  /\ UNCHANGED <<coreVars, connVars, agentVars, createVars, postVars,
                 blockinfo, named_block_info, excluded_disks,
                 included_disks, dpc, removed>>

\* one pass of `for bitmap in dev.bitmaps`: the end of the list, a bitmap
\* without name (KeyError), an ignored bitmap (continue), or
\* block-dirty-bitmap-remove, which the monitor runs or rejects
\* (RuntimeError)
remove_bitmaps_bitmap ==
  /\ rpc = "bitmap"
  /\ LET dev == devices[rdev]
         node == get_node(dev)
     IN IF rbit > Len(dev.bitmaps)
        THEN /\ rpc' = "dev" /\ rdev' = rdev + 1
             /\ UNCHANGED <<rbit, removed, hvBitmaps>>
        ELSE IF "name" \notin DOMAIN dev.bitmaps[rbit]
        THEN /\ rpc' = "raised"
             /\ UNCHANGED <<rdev, rbit, removed, hvBitmaps>>
        ELSE IF bitmap_ignored(dev.bitmaps[rbit].name, RemovePrefix,
                               remove_uuid(uuid))
        THEN /\ rbit' = rbit + 1
             /\ UNCHANGED <<rpc, rdev, removed, hvBitmaps>>
        ELSE LET cmd == QmpCommand("block-dirty-bitmap-remove",
                          [node |-> node, name |-> dev.bitmaps[rbit].name])
                 held == [node |-> node, name |-> dev.bitmaps[rbit].name]
             IN /\ removed' = Append(removed, cmd)
                /\ \/ /\ held \in hvBitmaps
                      /\ hvBitmaps' = hvBitmaps \ {held}
                      /\ rbit' = rbit + 1
                      /\ UNCHANGED <<rpc, rdev>>
                   \/ /\ rpc' = "raised"
                      /\ UNCHANGED <<rdev, rbit, hvBitmaps>>
  /\ UNCHANGED <<inputVars, actions, txState, nodeVars, jobVars, cancelVars,
                 connVars, agentVars, createVars, postVars, blockinfo,
                 named_block_info, excluded_disks, included_disks, dpc>>

RemoveNext == remove_bitmaps_dev \/ remove_bitmaps_bitmap

SpecRemove == RemoveInit /\ [][RemoveNext]_vars

----------------------------------------------------------------------------
(* Claims about the devices get_block_devices returns                       *)

\* entry i of the reply is in the list get_block_devices returned
Listed(i) ==
  /\ dpc = "list"
  /\ \E k \in 1..Len(devices) : devices[k].device = blockinfo[i].device

IsRaw(i) ==
  "inserted" \in DOMAIN blockinfo[i] /\ blockinfo[i].inserted.drv = "raw"

IsPflash(i) == StartsWith(blockinfo[i].device, <<"pflash">>)

\* C30: get_block_devices omits every device whose inserted format is raw
\* when include_raw is not set, includes the raw devices that have a qdev
\* and no pflash name when include_raw is set, and omits every device
\* whose name starts with pflash whatever include_raw is.
C30_RawAndPflashOmitted ==
  dpc \in {"none", "list", "raised"}
  => \A i \in 1..Len(blockinfo) :
       /\ (IsRaw(i) /\ ~argv.include_raw) => ~Listed(i)
       /\ (IsRaw(i) /\ argv.include_raw /\ "qdev" \in DOMAIN blockinfo[i]
             /\ ~IsPflash(i)) => Listed(i)
       /\ IsPflash(i) => ~Listed(i)

\* what the filter does for the devices without a pflash name: raw ones
\* are omitted without include_raw and listed with it
C30_RawFilterOfOtherDevices ==
  dpc \in {"none", "list", "raised"}
  => \A i \in 1..Len(blockinfo) :
       ~IsPflash(i)
       => /\ (IsRaw(i) /\ ~argv.include_raw) => ~Listed(i)
          /\ (IsRaw(i) /\ argv.include_raw /\ "qdev" \in DOMAIN blockinfo[i])
               => Listed(i)

\* entry i has passed every test of the loop body before the qdev lookup
ReachesQdev(i) ==
  ~device_skipped(blockinfo[i],
                  [args |-> argv, included |-> included_disks,
                   excluded |-> excluded_disks])

HasQdev(i) == "qdev" \in DOMAIN blockinfo[i]

IsBackingImage(i) ==
  /\ "inserted" \in DOMAIN blockinfo[i]
  /\ "backing-image" \in DOMAIN blockinfo[i].inserted.image

\* every returned BlockDev carries the qdev of its own entry of the reply
OwnQdev ==
  dpc = "list"
  => \A k \in 1..Len(devices) :
       \E i \in 1..Len(blockinfo) :
          /\ HasQdev(i)
          /\ blockinfo[i].device = devices[k].device
          /\ blockinfo[i].qdev = devices[k].qdev

C31_NoQdevNeverKept ==
  /\ dpc # "raised"
  /\ dpc \in {"none", "list"}
       => \A i \in 1..Len(blockinfo) : ~HasQdev(i) => ~Listed(i)
  /\ OwnQdev

----------------------------------------------------------------------------
(* Claims about the bitmaps of the devices get_block_devices returns        *)

\* the BlockDev returned for entry i of the reply
ReturnedFor(i) ==
  devices[CHOOSE k \in 1..Len(devices) :
            devices[k].device = blockinfo[i].device]

\* the dirty-bitmaps the named-nodes reply lists for node n, <<>> if none
NamedBitmaps(n) ==
  LET hits == { j \in 1..Len(named_block_info) :
                  /\ named_block_info[j]["node-name"] = n
                  /\ "dirty-bitmaps" \in DOMAIN named_block_info[j] }
  IN IF hits = {} THEN <<>>
     ELSE named_block_info[CHOOSE j \in hits : TRUE]["dirty-bitmaps"]

HasChild(i) ==
  /\ "children" \in DOMAIN blockinfo[i].inserted
  /\ ~StartsWith(blockinfo[i].inserted.children[1]["node-name"],
                 <<"#", "block">>)

\* C32: the bitmap list of a returned device is, with a child node, the
\* dirty-bitmaps of that child in the named-nodes reply; without, the
\* dirty-bitmaps of the inserted record when it has them, and those of the
\* outer device record only when the inserted record has none.
C32_BitmapSourceByPrecedence ==
  dpc = "list"
  => \A i \in 1..Len(blockinfo) :
       Listed(i)
       => LET e == blockinfo[i]
          IN ReturnedFor(i).bitmaps =
               IF HasChild(i)
               THEN NamedBitmaps(e.inserted.children[1]["node-name"])
               ELSE IF "dirty-bitmaps" \in DOMAIN e.inserted
                    THEN e.inserted["dirty-bitmaps"]
                    ELSE IF "dirty-bitmaps" \in DOMAIN e
                         THEN e["dirty-bitmaps"]
                         ELSE <<>>

\* the selection as it is made: without a child the list of the outer
\* record comes first and that of the inserted record second
C32_OuterRecordFirst ==
  dpc = "list"
  => \A i \in 1..Len(blockinfo) :
       Listed(i)
       => LET e == blockinfo[i]
          IN ReturnedFor(i).bitmaps =
               IF HasChild(i)
               THEN NamedBitmaps(e.inserted.children[1]["node-name"])
               ELSE IF "dirty-bitmaps" \in DOMAIN e
                    THEN e["dirty-bitmaps"]
                    ELSE IF "dirty-bitmaps" \in DOMAIN e.inserted
                         THEN e.inserted["dirty-bitmaps"]
                         ELSE <<>>

\* some bitmap of the list has a name that ends with the uuid
NamedByUuid(list) ==
  \E b \in SeqToSet(list) : "name" \in DOMAIN b /\ EndsWith(b.name, uuid)

\* C33: for every returned BlockDev has_bitmap is true iff a uuid is given
\* and a named bitmap of its list ends with the uuid, or no uuid is given
\* and its list is not empty; a bitmap without a name never makes
\* has_bitmap true under a uuid, and the call never raises.
C33_HasBitmapRule ==
  /\ dpc # "raised"
  /\ dpc = "list"
       => \A k \in 1..Len(devices) :
            devices[k].has_bitmap
            <=> IF uuid # PyNone THEN NamedByUuid(devices[k].bitmaps)
                ELSE devices[k].bitmaps # <<>>

\* a call with a uuid has returned a device whose only bitmap has no name,
\* without has_bitmap, and one with a nameless bitmap before the bitmap of
\* the chain, with has_bitmap
C33_Witness ==
  /\ dpc = "list"
  /\ uuid # PyNone
  /\ \E k \in 1..Len(devices) :
        devices[k].bitmaps = << Nameless >> /\ ~devices[k].has_bitmap
  /\ \E k \in 1..Len(devices) :
        /\ Len(devices[k].bitmaps) = 2
        /\ devices[k].bitmaps[1] = Nameless
        /\ devices[k].has_bitmap

----------------------------------------------------------------------------
(* Claims about the included and excluded disks                             *)

\* the entry of the reply a returned BlockDev was made of
EntryOf(k) ==
  CHOOSE i \in 1..Len(blockinfo) :
    /\ "inserted" \in DOMAIN blockinfo[i]
    /\ blockinfo[i].inserted["node-name"] = devices[k].node

\* the device name and the node name of entry i
NamesOf(i) == { blockinfo[i].device, blockinfo[i].inserted["node-name"] }

\* C34: a device is returned only if the include-set is empty or holds
\* its device name or its node name, and the exclude-set holds neither; a
\* device matched by both sets is not returned; the returned devices are
\* in the order of the query-block reply.
C34_IncludedAndNotExcluded ==
  dpc = "list"
  => /\ \A k \in 1..Len(devices) :
          /\ \/ included_disks = <<>>
             \/ NamesOf(EntryOf(k)) \cap SeqToSet(included_disks) # {}
          /\ NamesOf(EntryOf(k)) \cap SeqToSet(excluded_disks) = {}
     /\ \A k1, k2 \in 1..Len(devices) :
          k1 < k2 => EntryOf(k1) < EntryOf(k2)

\* two devices were returned, one included by its node name, and a third,
\* matched by both lists, was not
C34_Witness ==
  /\ dpc = "list"
  /\ Len(devices) = 2
  /\ \E k \in 1..Len(devices) :
        /\ devices[k].node \in SeqToSet(included_disks)
        /\ devices[k].device \notin SeqToSet(included_disks)
  /\ \E i \in 1..Len(blockinfo) :
        /\ NamesOf(i) \cap SeqToSet(included_disks) # {}
        /\ NamesOf(i) \cap SeqToSet(excluded_disks) # {}
        /\ \A k \in 1..Len(devices) : EntryOf(k) # i

----------------------------------------------------------------------------
(* Claims about remove_bitmaps                                              *)

\* the names of the named bitmaps of a device
BitmapNamesOfDev(d) ==
  { d.bitmaps[j].name : j \in { n \in 1..Len(d.bitmaps) :
                                  "name" \in DOMAIN d.bitmaps[n] } }

\* the bitmaps get_block_devices listed whose name starts with the prefix
\* and, when a uuid is given, ends with it
ToRemove ==
  { b \in NamedBitmapsOf(devices) :
      /\ StartsWith(b.name, RemovePrefix)
      /\ remove_uuid(uuid) # <<>> => EndsWith(b.name, remove_uuid(uuid)) }

\* C35: when remove_bitmaps has returned, the bitmaps it has removed are
\* exactly those whose name starts with the prefix and, with a uuid, ends
\* with the uuid; the others are intact; every command went to the child
\* node of its device when it has one, else to the device node.
C35_RemovesExactlyThePrefixed ==
  /\ rpc = "done" => hvBitmaps = NamedBitmapsOf(devices) \ ToRemove
  /\ rpc \in {"done", "raised"}
       => \A b \in NamedBitmapsOf(devices) \ ToRemove : b \in hvBitmaps
  /\ \A k \in 1..Len(removed) :
       \E i \in 1..Len(devices) :
          /\ removed[k].arguments.node = get_node(devices[i])
          /\ removed[k].arguments.name \in BitmapNamesOfDev(devices[i])

\* what is removed: the bitmaps whose name holds the prefix anywhere and,
\* with a uuid, ends with it
C35_RemovesThoseHoldingThePrefix ==
  /\ rpc = "done"
       => hvBitmaps =
            { b \in NamedBitmapsOf(devices) :
                bitmap_ignored(b.name, RemovePrefix, remove_uuid(uuid)) }
  /\ \A k \in 1..Len(removed) :
       \E i \in 1..Len(devices) :
          /\ removed[k].arguments.node = get_node(devices[i])
          /\ removed[k].arguments.name \in BitmapNamesOfDev(devices[i])

----------------------------------------------------------------------------
(* image.py: merge and clone                                                *)

\* argv.targetfile and the directory it is in; the files of the backup
\* directory are written by their names
TargetDir == <<"/", "restore", "/">>
TargetFile == TargetDir \o <<"base">>

\* os.path.join(targetdir, os.path.basename(image))
merge_tgtfile(image) ==
  IF image = TargetFile THEN TargetFile ELSE TargetDir \o image

\* the clones of a pass: of the image and of the image it is based on,
\* each unless its file is in the target directory already
merge_clones(image, base, present) ==
  (IF merge_tgtfile(image) \in present THEN <<>>
   ELSE << <<"clone", image, merge_tgtfile(image)>> >>)
  \o (IF merge_tgtfile(base) \in present \cup {merge_tgtfile(image)}
      THEN <<>>
      ELSE << <<"clone", base, merge_tgtfile(base)>> >>)

\* the files the clones of a run have made: a clone that failed made none
cloned_files(r) ==
  { r.ran[k][3] : k \in { j \in 1..Len(r.ran) :
                            /\ r.ran[j][1] = "clone"
                            /\ (j < Len(r.ran) \/ r.ok) } }

----------------------------------------------------------------------------
(* Specification SpecMerge: merge over a backup directory, every copy and  *)
(* every subprocess free to fail                                           *)

MergeInit ==
  /\ IdleCore
  /\ IdleConn
  /\ IdleAgent
  /\ IdleCreate
  /\ IdleDev
  /\ pop = "merge"
  /\ pimages \in ImageLists
  /\ pargs \in [dry_run : BOOLEAN, images_flat : {pimages},
                until : {PyNone, <<"INC-", "9">>} \cup SeqToSet(pimages)]
  /\ pfiles \in { SeqToSet(pimages), SeqToSet(pimages) \cup {TargetFile} }
  /\ ppc = "head"
  /\ ppos = 0
  /\ pres = "none"
  /\ plog = <<>>

\* merge from its call to its loop: get_images, then the first image is
\* cloned to the target file, which must not exist
merge_start ==
  /\ pop = "merge"
  /\ ppc = "head"
  /\ IF get_images(pimages, pargs.until) = "raise" \/ TargetFile \in pfiles
     THEN /\ ppc' = "done" /\ pres' = "False"
          /\ UNCHANGED <<plog, ppos, pimages, pfiles>>
     ELSE \E r \in Runs(<< <<"clone", At(pimages, 0), TargetFile>> >>) :
            /\ plog' = plog \o r.ran
            /\ pfiles' = pfiles \cup cloned_files(r)
            /\ pimages' = IF r.ok THEN [pimages EXCEPT ![1] = TargetFile]
                          ELSE pimages
            /\ ppc' = IF r.ok THEN "loop" ELSE "done"
            /\ pres' = IF r.ok THEN pres ELSE "False"
            /\ ppos' = ppos
  /\ UNCHANGED <<coreVars, connVars, agentVars, createVars, devVars, pop,
                 pargs>>

\* merge: one pass of `for image in reversed(images)`; ppos passes are done
merge_step ==
  /\ pop = "merge"
  /\ ppc = "loop"
  /\ LET here == Len(pimages) - 1 - ppos
         idx == here - 1
         image == At(pimages, here)
     IN IF here < 0
        THEN /\ ppc' = "done" /\ pres' = "True"
             /\ UNCHANGED <<plog, ppos, pfiles>>
        ELSE IF pargs.until # PyNone
                /\ idx >= IndexOf(pargs.images_flat, pargs.until)
        THEN /\ ppos' = ppos + 1
             /\ UNCHANGED <<ppc, pres, plog, pfiles>>
        ELSE IF here = 0
        THEN /\ ppc' = "done" /\ pres' = "True"
             /\ UNCHANGED <<plog, ppos, pfiles>>
        ELSE LET base == At(pimages, idx)
             IN \E r \in Runs(merge_clones(image, base, pfiles)
                              \o << <<"rebase", merge_tgtfile(image),
                                      merge_tgtfile(base)>>,
                                    <<"commit", merge_tgtfile(image)>> >>) :
                  /\ plog' = plog \o r.ran
                  /\ pfiles' = pfiles \cup cloned_files(r)
                  /\ IF r.ok THEN ppos' = ppos + 1 /\ UNCHANGED <<ppc, pres>>
                     ELSE ppc' = "done" /\ pres' = "False" /\ ppos' = ppos
  /\ UNCHANGED <<coreVars, connVars, agentVars, createVars, devVars, pop,
                 pargs, pimages>>

MergeNext == merge_start \/ merge_step

SpecMerge == MergeInit /\ [][MergeNext]_vars

----------------------------------------------------------------------------
(* Claims about merge                                                       *)

\* C39: with dry_run set merge clones no image, to the target file or to
\* its directory, and runs no rebase and no commit.
C39_MergeDryRunChangesNothing ==
  (pop = "merge" /\ pargs.dry_run)
  => /\ \A k \in 1..Len(plog) : plog[k][1] \notin {"clone", "rebase", "commit"}
     /\ pfiles \ {TargetFile} \subseteq SeqToSet(pargs.images_flat)

\* what merge does, dry_run set or not: when it returns True on a chain of
\* two or more images and no --until, it has cloned the first image to
\* the target file and rebased and committed every later image
C39_MergeRunsInDryRun ==
  (pop = "merge" /\ ppc = "done" /\ pres = "True"
     /\ pargs.until = PyNone /\ Len(pimages) >= 2)
  => /\ plog[1] = <<"clone", At(pargs.images_flat, 0), TargetFile>>
     /\ \A k \in 2..Len(pimages) :
          <<"commit", merge_tgtfile(pimages[k])>> \in SeqToSet(plog)

====
